---- MODULE Spec2Model ----
(***************************************************************************)
(* Model of the position / order bookkeeping engine of the trading bot     *)
(* (src/src/order/order_service.py, class OrderService) together with the  *)
(* exchange collaborator it talks to (src/src/exchange/exchange_client.py).*)
(*                                                                         *)
(* Numbers.  The code computes with floats; the model computes with exact  *)
(* integers in fixed units:                                                *)
(*   prices      in dollars,                                               *)
(*   quantities  in tenths of a contract (1 = 0.1),                        *)
(*   TP_PCT, SL_PCT in percent (scale Pct),                                *)
(*   SLIP_PCT, TRADE_FEE and the funding rate in basis points (scale Bp),  *)
(*   PnL and balance in (price unit x quantity unit) / Bp,                 *)
(*   time in hours.                                                        *)
(* Threshold comparisons are cross-multiplied, so they are exact.          *)
(*                                                                         *)
(* An optional value (Python None or a value) is a sequence of length 0    *)
(* or 1: None == << >>, Some(x) == <<x>>.                                  *)
(***************************************************************************)
EXTENDS Integers, Sequences, FiniteSets, TLC

VARIABLES
    paper,        \* OrderService.paper: TRUE paper mode, FALSE live mode
    cfg,          \* the CFG values read from the environment at start-up
    now,          \* the wall clock, datetime.utcnow(), in hours
    pos,          \* OrderService.pos: None or Some([entry, qty, side])
    balance,      \* OrderService.balance
    trades,       \* OrderService.trades: the ledger
    loss_cnt,     \* OrderService.loss_cnt
    pause_until,  \* OrderService.pause_until: None or Some(time)
    calls,        \* the exchange calls made by the most recent operation
    msgs,         \* the reports (tg) made by the most recent operation
    last,         \* the most recent operation, its arguments and its result
    funding_rate, \* the exchange: the funding rate fetch_funding_rate answers
    resume_len,   \* history: length of the ledger at the last resume
    df,           \* the frame of feature rows handed to Strategy.enrich
    enriched,     \* the frame the most recent Strategy.enrich returned
    pause_set,    \* history: the value most recently assigned to pause_until
    pc,           \* TradingBot.loop: the statement the worker is at
    steps,        \* TradingBot.loop: the calls made so far in this cycle
    df_latest,    \* TradingBot.df_latest: None or Some(published frame)
    model,        \* ModelService: model loaded?, t_last_train
    bot_cfg,      \* CFG: RETRAIN_HR, MARGIN_PER_TRADE, POS_SIZE, MAX_QTY
    reader_df,    \* the reader thread: what its last get_df returned
    dash,         \* the reader thread: run_dashboard's position and locals
    lock,         \* OrderService.lock: None or Some(the thread holding it)
    th            \* the engine call each thread is in

vars == <<paper, cfg, now, pos, balance, trades, loss_cnt, pause_until,
          calls, msgs, last, funding_rate, resume_len, df, enriched, pause_set,
          pc, steps, df_latest, model, bot_cfg, reader_df, dash, lock, th>>

engine == <<pos, balance, trades, loss_cnt, pause_until>>

\* the engine with its configuration, its clock, the exchange behind it and
\* the record of its most recent call
service == <<paper, cfg, now, engine, calls, msgs, last, funding_rate, resume_len,
             pause_set>>

signal == <<df, enriched>>

\* the state of the orchestrator
bot == <<pc, steps, df_latest, model, bot_cfg>>

\* the state of the reader thread
reader == <<reader_df, dash>>

\* the engine mutex and the calls in progress
mutex == <<lock, th>>

\* everything that is not state of the engine or of the exchange
outside == <<signal, bot, reader, mutex>>

----------------------------------------------------------------------------
(* Bounds of the model *)

MaxTime == 1

MaxOpens == 3

MaxRows == 2

(* Inputs *)

\* the arguments of open_position: <<px, qty, side>>
OpenArgs == {<<40000, 1, "long">>, <<40000, 2, "short">>}

\* the prices fed to poll_position_closed.  With entry 40020 (long) TP is
\* 42021 and SL 39219.6; with entry 39980 (short) TP is 37981 and SL 40779.6:
\* 42021 is exactly the long TP and beyond the short SL, 37981 is exactly the
\* short TP and beyond the long SL, 40000 crosses nothing
PollPrices == {37981, 40000, 42021}

FundingRates == {0, 1}

FillPrices == {40040}

MaxLossValues == {2}

PauseHrValues == {1}

----------------------------------------------------------------------------
(* Configuration, src/config/config.py *)

Pct == 100

Bp == 10000

LEVERAGE == 3

SL_PCT == 2

TP_PCT == 5

SLIP_PCT == 5

TRADE_FEE == 6

init_balance == 0

PxTick == 1

\* the probability thresholds, in percent
BUY_TH == 65

SELL_TH == 40

SHORT_TH == 35

----------------------------------------------------------------------------
(* Optional values *)

None == << >>

Some(x) == <<x>>

Abs(x) == IF x < 0 THEN 0 - x ELSE x

Min(a, b) == IF a < b THEN a ELSE b

Upper(side) == IF side = "long" THEN "LONG" ELSE "SHORT"

----------------------------------------------------------------------------
(* Records *)

\* OrderService.pos, the dict {"entry", "qty", "side"}
Position(entry, qty, side) == [entry |-> entry, qty |-> qty, side |-> side]

\* an entry record of the ledger: no "pnl" key
EntryRecord(t, side, price, bal) ==
    [time |-> t, side |-> Upper(side), price |-> price, bal |-> bal, pnl |-> None]

\* a faulty closing record named after the other side
CloseRecord_other_side(t, side, price, bal, pnl) ==
    [time |-> t, side |-> IF side = "long" THEN "CLOSE_SHORT" ELSE "CLOSE_LONG",
     price |-> price, bal |-> bal, pnl |-> Some(pnl)]

\* a faulty closing record with the balance before the close
CloseRecord_bal_before(t, side, price, bal, pnl) ==
    [time |-> t, side |-> IF side = "long" THEN "CLOSE_LONG" ELSE "CLOSE_SHORT",
     price |-> price, bal |-> bal - pnl, pnl |-> Some(pnl)]

\* a closing record of the ledger: side CLOSE_<SIDE>, with the realized PnL
CloseRecord(t, side, price, bal, pnl) ==
    [time |-> t, side |-> IF side = "long" THEN "CLOSE_LONG" ELSE "CLOSE_SHORT",
     price |-> price, bal |-> bal, pnl |-> Some(pnl)]

\* one call to the exchange collaborator and how it ended
ExCall(fn, side, qty, px, tp, res) ==
    [fn |-> fn, side |-> side, qty |-> qty, px |-> px, tp |-> tp, res |-> res]

\* one engine call: its name, its arguments, what it returned, whether it raised
Call(op, px, qty, side, ret, raised) ==
    [op |-> op, px |-> px, qty |-> qty, side |-> side, ret |-> ret, raised |-> raised]

----------------------------------------------------------------------------
(* The exchange collaborator: what its calls can answer *)

\* create_market_order: raises, or returns a fill record whose "price" key is
\* a number, is missing, or is present with the value None
MarketOrderResults ==
    {[kind |-> "raise", price |-> 0], [kind |-> "nokey", price |-> 0],
     [kind |-> "null", price |-> 0]}
    \cup {[kind |-> "price", price |-> p] : p \in FillPrices}

\* _attach_tp_sl in live mode: everything succeeds, price_to_precision raises,
\* the take-profit order raises, or the stop-loss order raises
AttachResults == {"ok", "prec_raise", "tp_raise", "sl_raise"}

\* fetch_position: a position record, the empty dict, None, or it raises
PositionResults == {"position", "empty", "none", "raise"}

\* ccxt price_to_precision: the price (given times Pct) rounded to the
\* exchange's tick
price_to_precision(px100) ==
    ((2 * px100 + PxTick * Pct) \div (2 * PxTick * Pct)) * PxTick

----------------------------------------------------------------------------
(* The pure parts of OrderService *)

\* `if self.pos` / `if not self.pos`: a position dict is truthy, None is not
HasPos(p) == p # None

\* a faulty estimate with the slippage in the trader's favour
slip_px_favourable(px, side) ==
    IF side = "long" THEN (px * (Bp - SLIP_PCT)) \div Bp
                     ELSE (px * (Bp + SLIP_PCT)) \div Bp

\* line 109: the slippage-adjusted estimate of the entry price
slip_px(px, side) ==
    IF side = "long" THEN (px * (Bp + SLIP_PCT)) \div Bp
                     ELSE (px * (Bp - SLIP_PCT)) \div Bp

\* line 116: float(order.get("price", entry_px)); float(None) raises TypeError
FillRaises(order) == order.kind \in {"raise", "null"}

FillPx(order, est) == IF order.kind = "price" THEN order.price ELSE est

\* a faulty take-profit price, above the entry for a short as well
tp_px_above(side, entry) == entry * (Pct + TP_PCT)

\* line 78: the take-profit price of _attach_tp_sl, times Pct
tp_px(side, entry) ==
    IF side = "long" THEN entry * (Pct + TP_PCT) ELSE entry * (Pct - TP_PCT)

\* line 79: the stop-loss price of _attach_tp_sl, times Pct
sl_px(side, entry) ==
    IF side = "long" THEN entry * (Pct - SL_PCT) ELSE entry * (Pct + SL_PCT)

\* line 139: the take-profit test of poll_position_closed
hit_tp(side, entry, px_now) ==
    IF side = "long" THEN px_now * Pct >= entry * (Pct + TP_PCT)
                     ELSE px_now * Pct <= entry * (Pct - TP_PCT)

\* a faulty stop-loss test that forgets the SL_PCT margin
hit_sl_at_entry(side, entry, px_now) ==
    IF side = "long" THEN px_now <= entry ELSE px_now >= entry

\* a faulty stop-loss test that forgets the short side
hit_sl_long_only(side, entry, px_now) ==
    side = "long" /\ px_now * Pct <= entry * (Pct - SL_PCT)

\* line 140: the stop-loss test of poll_position_closed
hit_sl(side, entry, px_now) ==
    IF side = "long" THEN px_now * Pct <= entry * (Pct - SL_PCT)
                     ELSE px_now * Pct >= entry * (Pct + SL_PCT)

\* a faulty _pnl that charges the fee on the entry price
_pnl_fee_on_entry(p, exit_px, rate) ==
    IF ~HasPos(p) THEN 0
    ELSE LET entry == p[1].entry
             qty   == p[1].qty
             side  == p[1].side
             delta == IF side = "long" THEN exit_px - entry ELSE entry - exit_px
             fee   == Abs(entry * qty) * TRADE_FEE
             funding == Abs(entry * qty) * rate
         IN  delta * qty * LEVERAGE * Bp - fee - funding

\* lines 60-73: _pnl, with the funding rate the exchange answered
_pnl(p, exit_px, rate) ==
    IF ~HasPos(p) THEN 0
    ELSE LET entry == p[1].entry
             qty   == p[1].qty
             side  == p[1].side
             delta == IF side = "long" THEN exit_px - entry ELSE entry - exit_px
             fee   == Abs(exit_px * qty) * TRADE_FEE
             funding == Abs(entry * qty) * rate
         IN  delta * qty * LEVERAGE * Bp - fee - funding

\* a faulty streak update that never resets on a non-negative close
next_loss_cnt_keep(cnt, pnl) == IF pnl < 0 THEN cnt + 1 ELSE cnt

\* line 151
next_loss_cnt(cnt, pnl) == IF pnl < 0 THEN cnt + 1 ELSE 0

\* a faulty pause that ends the earlier the later it is set
next_pause_until_shrinking(cnt, pu, t, c) ==
    IF cnt >= c.MAX_LOSS THEN Some(c.PAUSE_HR - t) ELSE pu

\* a faulty pause test, off by one
next_pause_until_late(cnt, pu, t, c) ==
    IF cnt > c.MAX_LOSS THEN Some(t + c.PAUSE_HR) ELSE pu

\* lines 152-153
next_pause_until(cnt, pu, t, c) ==
    IF cnt >= c.MAX_LOSS THEN Some(t + c.PAUSE_HR) ELSE pu

\* line 163: pause_until is set and the clock is before it
still_paused(pu, t) == pu # None /\ t < pu[1]

\* a faulty expiry test that never finds the pause over
pause_over_never(pu, t) == FALSE

\* a faulty expiry test, strict where line 166 is not
pause_over_strict(pu, t) == pu # None /\ t > pu[1]

\* line 166: pause_until is set and the clock has reached it
pause_over(pu, t) == pu # None /\ t >= pu[1]

\* a faulty test that takes only the empty dict for "no position"
no_pos_ex_empty_only(rep) == rep = "empty"

\* line 183: `if not pos_ex`: the empty dict and None are falsy
no_pos_ex(rep) == rep \in {"empty", "none"}

\* a faulty exit side, the same as the entry side
exit_side_same(side) == IF side = "long" THEN "BUY" ELSE "SELL"

\* the exit side of the protective orders, line 93
exit_side(side) == IF side = "long" THEN "SELL" ELSE "BUY"

\* the number of entry records of a ledger
Opens(tr) == Cardinality({i \in 1..Len(tr) : tr[i].pnl = None})

\* the clock values a later datetime.utcnow() of the same call can read
Later(t) == t .. Min(t + 1, MaxTime)

\* a faulty ledger that puts the new record in front
append_trade_front(tr, rec) == <<rec>> \o tr

\* lines 125 and 147: self.trades.append(record)
append_trade(tr, rec) == Append(tr, rec)

\* a faulty open_position without the guard of line 106
open_noop_missing(p) == FALSE

\* a faulty open_position whose guard works in paper mode only
open_noop_paper_only(p) == HasPos(p) /\ paper

\* line 106: open_position returns at once when a position is held
open_noop(p) == HasPos(p)

\* a faulty poll_position_closed that does not test the mode
poll_noop_any_mode(p, pap) == ~HasPos(p)

\* a faulty poll_position_closed with the mode test the wrong way round
poll_noop_in_paper(p, pap) == ~HasPos(p) \/ pap

\* line 135: poll_position_closed returns at once
poll_noop(p, pap) == ~HasPos(p) \/ ~pap

\* line 176: sync_position returns at once
sync_noop(p, pap) == pap \/ ~HasPos(p)

\* a faulty open_position whose except clause does not return
open_failed_no_return(pap, order) == FALSE

\* lines 111-120: the market order of open_position failed (live mode only)
open_failed(pap, order) == ~pap /\ FillRaises(order)

\* lines 109-116: the entry price of the new position
entry_price(pap, px, side, order) ==
    IF pap THEN slip_px(px, side) ELSE FillPx(order, slip_px(px, side))

\* line 114: the market order sent in live mode, with what the exchange
\* answered: res is "raise", or the kind of fill record ("price": a record
\* with a price, in px; "nokey": no price key; "null": price None)
MarketCall(side, qty, order) ==
    ExCall("create_market_order", IF side = "long" THEN "buy" ELSE "sell", qty,
           order.price, FALSE, order.kind)

\* a faulty _attach_tp_sl that submits the stop-loss order after the
\* take-profit order failed
attach_calls_sl_anyway(pap, side, entry_px, qty, attach) ==
    LET tp  == price_to_precision(tp_px(side, entry_px))
        sl  == price_to_precision(sl_px(side, entry_px))
        TP(res) == ExCall("create_exit_order", exit_side(side), qty, tp, TRUE, res)
        SL(res) == ExCall("create_exit_order", exit_side(side), qty, sl, FALSE, res)
    IN  CASE pap                   -> << >>
          [] attach = "prec_raise" -> << >>
          [] attach = "tp_raise"   -> <<TP("raise"), SL("ok")>>
          [] attach = "sl_raise"   -> <<TP("ok"), SL("raise")>>
          [] OTHER                 -> <<TP("ok"), SL("ok")>>

\* lines 75-101: the exchange calls of _attach_tp_sl; none in paper mode
attach_calls(pap, side, entry_px, qty, attach) ==
    LET tp  == price_to_precision(tp_px(side, entry_px))
        sl  == price_to_precision(sl_px(side, entry_px))
        TP(res) == ExCall("create_exit_order", exit_side(side), qty, tp, TRUE, res)
        SL(res) == ExCall("create_exit_order", exit_side(side), qty, sl, FALSE, res)
    IN  CASE pap                   -> << >>
          [] attach = "prec_raise" -> << >>
          [] attach = "tp_raise"   -> <<TP("raise")>>
          [] attach = "sl_raise"   -> <<TP("ok"), SL("raise")>>
          [] OTHER                 -> <<TP("ok"), SL("ok")>>

\* a faulty _attach_tp_sl without the try/except of lines 85 and 99
attach_raises_uncaught(pap, attach) == ~pap /\ attach # "ok"

\* lines 85 and 99: _attach_tp_sl catches every exception of the attachment,
\* so none reaches open_position
attach_raises(pap, attach) == FALSE

\* lines 99-101: the report of a failed attachment
attach_msgs(pap, attach) ==
    IF ~pap /\ attach # "ok" THEN <<"attach_failed">> ELSE << >>

----------------------------------------------------------------------------
(* The orchestrator, the model service and the reader after construction *)

\* the threads of the program: the worker (TradingBot.loop) and the reader
\* (run_dashboard)
Threads == {"worker", "reader"}

\* ModelService.__init__: the model is loaded when its file exists, and
\* t_last_train is datetime.min (None: before every time of the clock)
ModelService(loaded) == [loaded |-> loaded, t_last_train |-> None]

\* config.py line 110: the default of SLEEP_SEC, in seconds
SLEEP_SEC == 60

\* trading_bot.py line 116: time.sleep(30) of the handler, in seconds
BACKOFF_SEC == 30

\* the options of CFG the orchestrator reads: RETRAIN_HR in hours,
\* MARGIN_PER_TRADE in dollars, POS_SIZE and MAX_QTY in tenths of a contract,
\* SLEEP_SEC in seconds (left at its default)
BotCfg(retrain, margin, size, maxq) ==
    [RETRAIN_HR |-> retrain, MARGIN_PER_TRADE |-> margin, POS_SIZE |-> size,
     MAX_QTY |-> maxq, SLEEP_SEC |-> SLEEP_SEC]

DefaultBotCfg == BotCfg(1, 0, 20, 2)

\* run_dashboard: where the reader is, what `if bot.order.pos` saw, and the
\* local pos_info
Dashboard(at, saw, info) == [at |-> at, saw |-> saw, pos_info |-> info]

\* a thread that is in no engine call
Idle == [op |-> "none", stage |-> "idle"]

\* everything outside the engine after construction: TradingBot.__init__
\* (df_latest None), the lock free, no thread in a call
Rest ==
    /\ pause_set = None
    /\ pc = "is_paused"
    /\ steps = << >>
    /\ df_latest = None
    /\ model = ModelService(FALSE)
    /\ bot_cfg = DefaultBotCfg
    /\ reader_df = None
    /\ dash = Dashboard("idle", FALSE, None)
    /\ lock = None
    /\ th = [t \in Threads |-> Idle]

----------------------------------------------------------------------------
(* State after construction, OrderService.__init__ *)

Init ==
    /\ paper \in BOOLEAN
    /\ cfg \in [MAX_LOSS : MaxLossValues, PAUSE_HR : PauseHrValues]
    /\ now = 0
    /\ pos = None
    /\ balance = init_balance
    /\ trades = << >>
    /\ loss_cnt = 0
    /\ pause_until = None
    /\ calls = IF paper THEN << >>
               ELSE <<ExCall("set_leverage", "", 0, LEVERAGE, FALSE, "ok")>>
    /\ msgs = << >>
    /\ last = Call("init", 0, 0, "", None, FALSE)
    /\ funding_rate \in FundingRates
    /\ resume_len = 0
    /\ df = << >>
    /\ enriched = << >>
    /\ Rest

----------------------------------------------------------------------------
(* The operations of OrderService.  Each runs under self.lock from its     *)
(* first to its last statement, so each is one step.                       *)

\* OrderService.open_position(px, qty, side); order and attach are what the
\* exchange answers in live mode
open_position(px, qty, side, order, attach) ==
    LET entry_px == entry_price(paper, px, side, order) IN
    /\ UNCHANGED <<paper, cfg, funding_rate, now, balance, loss_cnt, pause_until, resume_len,
                   pause_set>>
    /\ IF open_noop(pos)
       THEN /\ last' = Call("open", px, qty, side, None, FALSE)
            /\ calls' = << >>
            /\ msgs' = << >>
            /\ UNCHANGED <<pos, trades>>
       ELSE IF open_failed(paper, order)
       THEN /\ last' = Call("open", px, qty, side, None, FALSE)
            /\ calls' = <<MarketCall(side, qty, order)>>
            /\ msgs' = <<"open_failed">>
            /\ UNCHANGED <<pos, trades>>
       ELSE /\ Opens(trades) < MaxOpens
            /\ last' = Call("open", px, qty, side, None, attach_raises(paper, attach))
            /\ pos' = Some(Position(entry_px, qty, side))
            /\ trades' = append_trade(trades, EntryRecord(now, side, entry_px, balance))
            /\ calls' = (IF paper THEN << >> ELSE <<MarketCall(side, qty, order)>>)
                        \o attach_calls(paper, side, entry_px, qty, attach)
            /\ msgs' = <<"opened">> \o attach_msgs(paper, attach)

\* OrderService.poll_position_closed(px_now); rate is the funding rate the
\* exchange answers to _pnl
poll_position_closed(px_now, rate) ==
    /\ last' = Call("poll", px_now, 0, "", None, FALSE)
    /\ UNCHANGED <<paper, cfg, funding_rate, resume_len>>
    /\ IF poll_noop(pos, paper)
       THEN /\ calls' = << >>
            /\ msgs' = << >>
            /\ UNCHANGED <<now, pos, balance, trades, loss_cnt, pause_until, pause_set>>
       ELSE IF ~(hit_tp(pos[1].side, pos[1].entry, px_now)
                 \/ hit_sl(pos[1].side, pos[1].entry, px_now))
       THEN /\ calls' = << >>
            /\ msgs' = << >>
            /\ UNCHANGED <<now, pos, balance, trades, loss_cnt, pause_until, pause_set>>
       ELSE LET pnl == _pnl(pos, px_now, rate)
                bal == balance + pnl
                cnt == next_loss_cnt(loss_cnt, pnl)
            IN  /\ balance' = bal
                /\ trades' = append_trade(trades,
                                          CloseRecord(now, pos[1].side, px_now, bal, pnl))
                /\ loss_cnt' = cnt
                /\ \E t \in (IF cnt >= cfg.MAX_LOSS THEN Later(now) ELSE {now}) :
                      /\ now' = t
                      /\ pause_until' = next_pause_until(cnt, pause_until, t, cfg)
                      /\ pause_set' = IF cnt >= cfg.MAX_LOSS
                                      THEN next_pause_until(cnt, pause_until, t, cfg)
                                      ELSE pause_set
                /\ pos' = None
                /\ calls' = <<ExCall("fetch_funding_rate", "", 0, rate, FALSE, "ok")>>
                /\ msgs' = <<"closed">>
                           \o (IF cnt >= cfg.MAX_LOSS THEN <<"max_loss">> ELSE << >>)

\* OrderService.is_paused()
is_paused ==
    /\ calls' = << >>
    /\ UNCHANGED <<paper, cfg, funding_rate, pos, balance, trades, pause_set>>
    /\ IF still_paused(pause_until, now)
       THEN /\ last' = Call("is_paused", 0, 0, "", Some(TRUE), FALSE)
            /\ msgs' = << >>
            /\ UNCHANGED <<now, loss_cnt, pause_until, resume_len>>
       ELSE /\ last' = Call("is_paused", 0, 0, "", Some(FALSE), FALSE)
            /\ \E t \in (IF pause_until # None THEN Later(now) ELSE {now}) :
                  /\ now' = t
                  /\ IF pause_over(pause_until, t)
                     THEN /\ pause_until' = None
                          /\ loss_cnt' = 0
                          /\ msgs' = <<"resumed">>
                          /\ resume_len' = Len(trades)
                     ELSE /\ msgs' = << >>
                          /\ UNCHANGED <<loss_cnt, pause_until, resume_len>>

\* OrderService.sync_position(); rep is what fetch_position answers
sync_position(rep) ==
    /\ UNCHANGED <<paper, cfg, funding_rate, now, balance, trades, loss_cnt, pause_until,
                   resume_len, pause_set>>
    /\ IF sync_noop(pos, paper)
       THEN /\ last' = Call("sync", 0, 0, "", None, FALSE)
            /\ calls' = << >>
            /\ msgs' = << >>
            /\ UNCHANGED pos
       ELSE /\ last' = Call("sync", 0, 0, "", None, rep = "raise")
            /\ calls' = <<ExCall("fetch_position", "", 0, 0, FALSE, rep)>>
            /\ IF rep # "raise" /\ no_pos_ex(rep)
               THEN /\ pos' = None
                    /\ msgs' = <<"sync_reset">>
               ELSE /\ msgs' = << >>
                    /\ UNCHANGED pos

\* the wall clock advances
Tick ==
    /\ now < MaxTime
    /\ now' = now + 1
    /\ last' = Call("tick", 0, 0, "", None, FALSE)
    /\ calls' = << >>
    /\ msgs' = << >>
    /\ UNCHANGED <<paper, cfg, funding_rate, pos, balance, trades, loss_cnt, pause_until,
                   resume_len, pause_set>>
    /\ UNCHANGED outside

Open ==
    /\ \E a \in OpenArgs, order \in MarketOrderResults, attach \in AttachResults :
          open_position(a[1], a[2], a[3], order, attach)
    /\ UNCHANGED outside

Poll ==
    /\ \E px_now \in PollPrices : poll_position_closed(px_now, funding_rate)
    /\ UNCHANGED outside

IsPaused == is_paused /\ UNCHANGED outside

Sync ==
    /\ \E rep \in PositionResults : sync_position(rep)
    /\ UNCHANGED outside

Next == Open \/ Poll \/ IsPaused \/ Sync \/ Tick

Spec == Init /\ [][Next]_vars

----------------------------------------------------------------------------
(* The paper engine under the pause durations the configuration accepts:   *)
(* CFG.PAUSE_HR is int(os.getenv("PAUSE_HR", 1)) and CFG.validate() tests   *)
(* POS_SIZE, MARGIN_PER_TRADE and LEVERAGE only, so zero and negative       *)
(* durations are accepted.                                                  *)

PauseHrAccepted == {-1, 0, 1}

InitCfg ==
    /\ paper = TRUE
    /\ cfg \in [MAX_LOSS : MaxLossValues, PAUSE_HR : PauseHrAccepted]
    /\ now = 0
    /\ pos = None
    /\ balance = init_balance
    /\ trades = << >>
    /\ loss_cnt = 0
    /\ pause_until = None
    /\ calls = << >>
    /\ msgs = << >>
    /\ last = Call("init", 0, 0, "", None, FALSE)
    /\ funding_rate = 0
    /\ resume_len = 0
    /\ df = << >>
    /\ enriched = << >>
    /\ Rest

SpecCfg == InitCfg /\ [][Next]_vars

----------------------------------------------------------------------------
(* Strategy.enrich, src/src/strategy/strategy.py.  A frame is a sequence   *)
(* of rows; a feature row carries the columns enrich reads: ema_fast,      *)
(* ema_slow, rsi, macd, macd_sig and prob_up (in percent).                 *)

FeatureRow(ef, es, r, m, ms, p) ==
    [ema_fast |-> ef, ema_slow |-> es, rsi |-> r, macd |-> m, macd_sig |-> ms,
     prob_up |-> p]

\* rsi on both sides of and at the literals 30, 40, 60 and 70
RsiValues == {29, 30, 40, 60, 70, 71}

\* prob_up on both sides of and at SHORT_TH, SELL_TH and BUY_TH
ProbValues == {34, 35, 40, 65, 66}

\* ema_fast against ema_slow = 2, and macd against macd_sig = 0: below, equal
\* and above
EmaFastValues == {1, 2, 3}

MacdValues == {-1, 0, 1}

\* the rows fed to enrich: the two trending shapes (both indicators up, both
\* down) with every rsi and prob_up, and every shape of the indicators with
\* the rsi and prob_up that favour a long and those that favour a short
FeatureRows ==
    {FeatureRow(t[1], 2, r, t[2], 0, p) :
        t \in {<<3, 1>>, <<1, -1>>}, r \in RsiValues, p \in ProbValues}
    \cup {FeatureRow(ef, 2, c[1], m, 0, c[2]) :
        ef \in EmaFastValues, m \in MacdValues, c \in {<<30, 66>>, <<70, 34>>}}

\* lines 43-47
rule_long(row) ==
    row.ema_fast > row.ema_slow /\ row.rsi < 40 /\ row.macd > row.macd_sig

\* lines 50-54
rule_short(row) ==
    row.ema_fast < row.ema_slow /\ row.rsi > 60 /\ row.macd < row.macd_sig

\* a faulty long signal that fires at the threshold
long_at_threshold(row) == rule_long(row) /\ row.prob_up >= BUY_TH

\* line 60
long(row) == rule_long(row) /\ row.prob_up > BUY_TH

\* line 64
short(row) == rule_short(row) /\ row.prob_up < SHORT_TH

\* lines 69-73
exit_l(row) ==
    row.prob_up < SELL_TH \/ row.rsi > 70 \/ row.macd < row.macd_sig

\* lines 76-80
exit_s(row) ==
    row.prob_up > BUY_TH \/ row.rsi < 30 \/ row.macd > row.macd_sig

\* the row with the six columns enrich assigns; its other columns stay
enrich_row(row) ==
    [rule_long |-> rule_long(row), rule_short |-> rule_short(row),
     long |-> long(row), short |-> short(row),
     exit_l |-> exit_l(row), exit_s |-> exit_s(row)] @@ row

\* line 38: DataFrame.copy, a new frame with the same rows
copy(d) == d

\* a faulty enrich that assigns its columns to the frame it was given
shares_input_nocopy == TRUE

\* line 38: the frame enrich assigns to is the copy, which shares nothing
\* with the frame passed in
shares_input == FALSE

\* lines 27-99: the frame enrich returns; every assignment is column-wise,
\* so every row is computed from its own columns
enrich(d) == LET w == copy(d) IN [i \in 1..Len(w) |-> enrich_row(w[i])]

\* thresholds of the entry signals that differ from the defaults: BUY_TH and
\* SHORT_TH (config.py lines 93 and 97, read from the environment) in either
\* order
ThCfgs == [BUY_TH : {SHORT_TH, BUY_TH}, SHORT_TH : {SHORT_TH, BUY_TH}]

\* line 60, with the BUY_TH of the configuration c
long_cfg(row, c) == rule_long(row) /\ row.prob_up > c.BUY_TH

\* a faulty short signal that forgets rule_short
short_cfg_prob_only(row, c) == row.prob_up < c.SHORT_TH

\* line 64, with the SHORT_TH of the configuration c
short_cfg(row, c) == rule_short(row) /\ row.prob_up < c.SHORT_TH

\* lines 43-64: the four entry columns enrich assigns under the
\* configuration c; the other columns of the row stay
enrich_row_cfg(row, c) ==
    [rule_long |-> rule_long(row), rule_short |-> rule_short(row),
     long |-> long_cfg(row, c), short |-> short_cfg(row, c)] @@ row

\* the frame enrich returns under the configuration c
enrich_cfg(d, c) == LET w == copy(d) IN [i \in 1..Len(w) |-> enrich_row_cfg(w[i], c)]

\* trading_bot.py lines 100-103: the sides the order step calls
\* open_position for, in the order of the two `if`s
opens_of(row) ==
    (IF row.long THEN <<"long">> ELSE << >>) \o (IF row.short THEN <<"short">> ELSE << >>)

\* the paper engine after construction, with no frame yet
SignalInit ==
    /\ paper = TRUE
    /\ cfg \in [MAX_LOSS : MaxLossValues, PAUSE_HR : PauseHrValues]
    /\ now = 0
    /\ pos = None
    /\ balance = init_balance
    /\ trades = << >>
    /\ loss_cnt = 0
    /\ pause_until = None
    /\ calls = << >>
    /\ msgs = << >>
    /\ last = Call("init", 0, 0, "", None, FALSE)
    /\ funding_rate = 0
    /\ resume_len = 0
    /\ df = << >>
    /\ enriched = << >>
    /\ Rest

\* trading_bot.py lines 61 and 73: the repository and the model hand over the
\* frame with one more row
get_merged(row) ==
    /\ Len(df) < MaxRows
    /\ df' = Append(df, row)
    /\ last' = Call("get_merged", 0, 0, "", None, FALSE)
    /\ UNCHANGED <<paper, cfg, now, pos, balance, trades, loss_cnt, pause_until,
                   calls, msgs, funding_rate, resume_len, enriched, pause_set>>
    /\ UNCHANGED <<bot, reader, mutex>>

\* trading_bot.py line 74, Strategy.enrich(df): the caller's frame afterwards
\* and the frame returned
Strategy_enrich ==
    /\ enriched' = enrich(df)
    /\ df' = IF shares_input THEN enrich(df) ELSE df
    /\ last' = Call("enrich", 0, 0, "", None, FALSE)
    /\ UNCHANGED <<paper, cfg, now, pos, balance, trades, loss_cnt, pause_until,
                   calls, msgs, funding_rate, resume_len, pause_set>>
    /\ UNCHANGED <<bot, reader, mutex>>

GetMerged == \E row \in FeatureRows : get_merged(row)

\* Strategy.enrich(df) with CFG.BUY_TH and CFG.SHORT_TH as in the configuration c
Strategy_enrich_cfg(c) ==
    /\ enriched' = enrich_cfg(df, c)
    /\ df' = IF shares_input THEN enrich_cfg(df, c) ELSE df
    /\ last' = Call("enrich", c.BUY_TH, c.SHORT_TH, "", None, FALSE)
    /\ UNCHANGED <<paper, cfg, now, pos, balance, trades, loss_cnt, pause_until,
                   calls, msgs, funding_rate, resume_len, pause_set>>
    /\ UNCHANGED <<bot, reader, mutex>>


SignalNext == GetMerged \/ Strategy_enrich

SpecSignal == SignalInit /\ [][SignalNext]_vars

\* the rows fed to enrich under the configurations of ThCfgs: every shape
\* of the indicators, the rsi of a long and that of a short, and prob_up
\* below, between and above the two thresholds
ThRows ==
    {FeatureRow(ef, 2, r, m, 0, p) :
        ef \in EmaFastValues, m \in MacdValues, r \in {30, 70}, p \in {34, 40, 66}}

ThNext ==
    \/ \E row \in ThRows : get_merged(row)
    \/ \E c \in ThCfgs : Strategy_enrich_cfg(c)

\* enrich under every threshold configuration of ThCfgs
SpecTh == SignalInit /\ [][ThNext]_vars

----------------------------------------------------------------------------
(* The orchestrator, TradingBot.loop (src/src/bot/trading_bot.py), with    *)
(* the data and the model collaborator.  pc names the statement the worker *)
(* is about to execute; steps lists the calls it has made in this cycle.   *)

\* a row of IndicatorRepository.get_merged: the indicator columns, the close
\* and the atr; prob_up is added by add_prob
IndicatorRow(ef, es, r, m, ms, close, atr) ==
    [ema_fast |-> ef, ema_slow |-> es, rsi |-> r, macd |-> m, macd_sig |-> ms,
     close |-> close, atr |-> atr]

\* line 80: the number of rows published
TAIL_ROWS == 500

\* a row whose indicators satisfy rule_long, one whose indicators satisfy
\* rule_short, both closing at 40000; rows of neither rule closing beyond the
\* thresholds of the positions opened at 40000
UpRow == IndicatorRow(3, 2, 30, 1, 0, 40000, 10)

DownRow == IndicatorRow(1, 2, 70, -1, 0, 40000, 10)

FlatRow(close) == IndicatorRow(2, 2, 50, 0, 0, close, 10)

\* the frames get_merged returns; the empty frame is what dropna leaves when
\* every row has a missing value
MergedFrames ==
    {<< >>, <<UpRow>>, <<DownRow>>, <<UpRow, FlatRow(37981)>>, <<FlatRow(42021)>>}

\* what get_merged does: returns a frame, or raises ValueError on a timeframe
\* without data (indicator_repository.py lines 121-122)
MergedResults == {"frame", "raise"}

\* what ModelService.train does: completes; raises before the model is
\* assigned; raises after the model is assigned (line 109) and before
\* t_last_train is (line 123)
TrainResults == {"ok", "raise", "raise_fitted"}

\* what ModelService.add_prob does: returns the frame with prob_up, or raises
ProbResults == {"ok", "raise"}

\* predict_proba of the loaded model on a row, in percent
predict_proba(row) ==
    IF row.rsi < 40 THEN {66} ELSE IF row.rsi > 60 THEN {34} ELSE {50}

\* model_service.py lines 137-146: the frames add_prob can return: prob_up
\* predicted by the loaded model, 0.5 without a model
add_prob(m, d) ==
    IF m.loaded
    THEN {[i \in 1..Len(d) |-> [prob_up |-> p] @@ d[i]] :
              p \in IF d = << >> THEN {50} ELSE predict_proba(d[Len(d)])}
    ELSE {[i \in 1..Len(d) |-> [prob_up |-> 50] @@ d[i]]}

\* a faulty tail that keeps the first n rows
tail_head(d, n) == IF Len(d) <= n THEN d ELSE SubSeq(d, 1, n)

\* DataFrame.tail(n)
tail(d, n) == IF Len(d) <= n THEN d ELSE SubSeq(d, Len(d) - n + 1, Len(d))

\* a faulty retrain test that already fires at the interval
need_train_at(m, t, c) ==
    \/ ~m.loaded
    \/ m.t_last_train = None
    \/ t - m.t_last_train[1] >= c.RETRAIN_HR

\* lines 66-68: no model, or more than RETRAIN_HR hours (total seconds over
\* RETRAIN_HR x 3600) since t_last_train; since datetime.min it is always more
need_train(m, t, c) ==
    \/ ~m.loaded
    \/ m.t_last_train = None
    \/ t - m.t_last_train[1] > c.RETRAIN_HR

\* lines 89-97: the quantity of the order, in tenths of a contract.  The close
\* and the atr fed are positive, so max(x, 1e-6) is x
order_qty(row, c) ==
    LET qty == IF c.MARGIN_PER_TRADE > 0
               THEN (c.MARGIN_PER_TRADE * LEVERAGE * 10) \div row.close
               ELSE c.POS_SIZE \div row.atr
    IN  Min(qty, c.MAX_QTY)

\* a faulty handler that catches the data collaborator's ValueError only
caught_value_error_only(step) == step = "get_merged"

\* line 112: `except Exception` catches whatever a step of the cycle raises
caught(step) == TRUE

\* a faulty loop that goes on with the cycle when the data fetch raises
raise_pc_swallowed(step) == IF step = "get_merged" THEN "train" ELSE "backoff"

\* where the worker goes when a step raises
raise_pc(step) == IF caught(step) THEN "backoff" ELSE "terminated"

\* the opens of the runs of the loop
MaxLoopOpens == 2

\* the frames whose last row can give a signal
MaySignal(d) == d # << >> /\ d[Len(d)].rsi # 50

\* a step of the loop that is no engine call: it leaves the engine alone
BotStep(name, raised) ==
    /\ last' = Call(name, 0, 0, "", None, raised)
    /\ calls' = << >>
    /\ UNCHANGED <<paper, cfg, funding_rate, pos, balance, trades, loss_cnt,
                   pause_until, resume_len, pause_set, bot_cfg>>
    /\ UNCHANGED <<reader, mutex>>

\* time.sleep(secs) of the loop: the seconds asked for are kept as the first
\* argument of the recorded call; the engine is left alone
SleepStep(name, secs) ==
    /\ last' = Call(name, secs, 0, "", None, FALSE)
    /\ calls' = << >>
    /\ UNCHANGED <<paper, cfg, funding_rate, pos, balance, trades, loss_cnt,
                   pause_until, resume_len, pause_set, bot_cfg>>
    /\ UNCHANGED <<reader, mutex>>

\* a faulty loop that goes on with the cycle whatever is_paused returned
after_pause_check_ignored(ret) == "get_merged"

\* lines 56-58: where the worker goes after the pause check
after_pause_check(ret) == IF ret = Some(TRUE) THEN "pause_sleep" ELSE "get_merged"

\* line 56: self.order.is_paused()
loop_is_paused ==
    /\ pc = "is_paused"
    /\ is_paused
    /\ steps' = Append(steps, "is_paused")
    /\ pc' = after_pause_check(last'.ret)
    /\ UNCHANGED <<signal, df_latest, model, bot_cfg, reader, mutex>>

\* lines 57-58: time.sleep(SLEEP_SEC); continue
loop_pause_sleep ==
    /\ pc = "pause_sleep"
    /\ SleepStep("pause_sleep", bot_cfg.SLEEP_SEC)
    /\ msgs' = << >>
    /\ now' \in Later(now)
    /\ pc' = "is_paused"
    /\ steps' = << >>
    /\ UNCHANGED <<signal, df_latest, model>>

\* line 61: df = self.repo.get_merged()
loop_get_merged(res, d) ==
    /\ pc = "get_merged"
    /\ BotStep("get_merged", res = "raise")
    /\ msgs' = << >>
    /\ steps' = Append(steps, "get_merged")
    /\ IF res = "raise"
       THEN pc' = raise_pc("get_merged") /\ UNCHANGED df
       ELSE /\ MaySignal(d) => Opens(trades) < MaxLoopOpens
            /\ pc' = "train"
            /\ df' = d
    /\ UNCHANGED <<now, enriched, df_latest, model>>

\* lines 66-70: need_train, and self.model.train(df) when it holds
loop_train(res) ==
    /\ pc = "train"
    /\ msgs' = << >>
    /\ IF ~need_train(model, now, bot_cfg)
       THEN /\ BotStep("need_train", FALSE)
            /\ pc' = "add_prob"
            /\ UNCHANGED <<now, model, steps>>
       ELSE /\ BotStep("train", res # "ok")
            /\ steps' = Append(steps, "train")
            /\ now' \in Later(now)
            /\ model' = CASE res = "ok" ->
                                [loaded |-> TRUE, t_last_train |-> Some(now')]
                           [] res = "raise_fitted" ->
                                [model EXCEPT !.loaded = TRUE]
                           [] OTHER -> model
            /\ pc' = IF res = "ok" THEN "add_prob" ELSE raise_pc("train")
    /\ UNCHANGED <<signal, df_latest>>

\* line 73: df = self.model.add_prob(df)
loop_add_prob(res, d) ==
    /\ pc = "add_prob"
    /\ BotStep("add_prob", res = "raise")
    /\ msgs' = << >>
    /\ steps' = Append(steps, "add_prob")
    /\ IF res = "raise"
       THEN pc' = raise_pc("add_prob") /\ UNCHANGED df
       ELSE pc' = "enrich" /\ d \in add_prob(model, df) /\ df' = d
    /\ UNCHANGED <<now, enriched, df_latest, model>>

\* line 74: df = Strategy.enrich(df)
loop_enrich ==
    /\ pc = "enrich"
    /\ BotStep("enrich", FALSE)
    /\ msgs' = << >>
    /\ steps' = Append(steps, "enrich")
    /\ enriched' = enrich(df)
    /\ df' = IF shares_input THEN enrich(df) ELSE df
    /\ pc' = "publish"
    /\ UNCHANGED <<now, df_latest, model>>

\* lines 77-80: with self.lock: self.df_latest = df.tail(500).copy()
loop_publish ==
    /\ pc = "publish"
    /\ BotStep("publish", FALSE)
    /\ msgs' = << >>
    /\ steps' = Append(steps, "publish")
    /\ df_latest' = Some(copy(tail(enriched, TAIL_ROWS)))
    /\ pc' = "order"
    /\ UNCHANGED <<now, signal, model>>

\* lines 83-106: last = df.iloc[-1] (IndexError on an empty frame); without a
\* position an open when the last row has a signal (rule_long and rule_short
\* exclude each other, so at most one of the two opens is called); with a
\* position the sync, and then the poll unless the sync raised
loop_order(order, attach, rep) ==
    /\ pc = "order"
    /\ UNCHANGED <<signal, df_latest, model, bot_cfg, reader, mutex>>
    /\ IF enriched = << >>
       THEN /\ last' = Call("iloc", 0, 0, "", None, TRUE)
            /\ calls' = << >>
            /\ msgs' = << >>
            /\ pc' = raise_pc("iloc")
            /\ UNCHANGED <<paper, cfg, funding_rate, now, pos, balance, trades,
                           loss_cnt, pause_until, resume_len, pause_set, steps>>
       ELSE LET row == enriched[Len(enriched)] IN
            IF pos = None
            THEN IF opens_of(row) # << >>
                 THEN /\ open_position(row.close, order_qty(row, bot_cfg),
                                       opens_of(row)[1], order, attach)
                      /\ steps' = Append(steps, "open")
                      /\ pc' = "sleep"
                 ELSE /\ last' = Call("no_signal", 0, 0, "", None, FALSE)
                      /\ calls' = << >>
                      /\ msgs' = << >>
                      /\ pc' = "sleep"
                      /\ UNCHANGED <<paper, cfg, funding_rate, now, pos, balance,
                                     trades, loss_cnt, pause_until, resume_len,
                                     pause_set, steps>>
            ELSE /\ sync_position(rep)
                 /\ steps' = Append(steps, "sync")
                 /\ pc' = IF last'.raised THEN raise_pc("sync") ELSE "poll"

\* line 108: self.order.poll_position_closed(last["close"])
loop_poll ==
    /\ pc = "poll"
    /\ poll_position_closed(enriched[Len(enriched)].close, funding_rate)
    /\ steps' = Append(steps, "poll")
    /\ pc' = "sleep"
    /\ UNCHANGED <<signal, df_latest, model, bot_cfg, reader, mutex>>

\* line 111: time.sleep(SLEEP_SEC); the next cycle begins
loop_sleep ==
    /\ pc = "sleep"
    /\ SleepStep("sleep", bot_cfg.SLEEP_SEC)
    /\ msgs' = << >>
    /\ now' \in Later(now)
    /\ pc' = "is_paused"
    /\ steps' = << >>
    /\ df' = << >>
    /\ enriched' = << >>
    /\ UNCHANGED <<df_latest, model>>

\* lines 112-116: the handler reports the failure and sleeps 30 seconds; the
\* next cycle begins
loop_backoff ==
    /\ pc = "backoff"
    /\ SleepStep("backoff", BACKOFF_SEC)
    /\ msgs' = <<"loop_error">>
    /\ now' \in Later(now)
    /\ pc' = "is_paused"
    /\ steps' = << >>
    /\ df' = << >>
    /\ enriched' = << >>
    /\ UNCHANGED <<df_latest, model>>

RetrainHrValues == {0, 1}

\* the state after main.py has constructed the engine, the model service and
\* the orchestrator and started the worker, for the model files and the
\* configurations given
BotStartWith(engine_cfgs, models, cfgs) ==
    /\ paper \in BOOLEAN
    /\ cfg \in engine_cfgs
    /\ now = 0
    /\ pos = None
    /\ balance = init_balance
    /\ trades = << >>
    /\ loss_cnt = 0
    /\ pause_until = None
    /\ calls = IF paper THEN << >>
               ELSE <<ExCall("set_leverage", "", 0, LEVERAGE, FALSE, "ok")>>
    /\ msgs = << >>
    /\ last = Call("init", 0, 0, "", None, FALSE)
    /\ funding_rate = 0
    /\ resume_len = 0
    /\ df = << >>
    /\ enriched = << >>
    /\ pause_set = None
    /\ pc = "is_paused"
    /\ steps = << >>
    /\ df_latest = None
    /\ model \in models
    /\ bot_cfg \in cfgs
    /\ reader_df = None
    /\ dash = Dashboard("idle", FALSE, None)
    /\ lock = None
    /\ th = [t \in Threads |-> Idle]

\* the start with the loss limit and the pause of MaxLossValues and
\* PauseHrValues
BotStart(models, cfgs) ==
    BotStartWith([MAX_LOSS : MaxLossValues, PAUSE_HR : PauseHrValues], models, cfgs)

BotInit ==
    BotStart({ModelService(FALSE), ModelService(TRUE)},
             {BotCfg(r, 0, 20, 2) : r \in RetrainHrValues})

\* the start without a model file and with the default configuration
BotInitFair == BotStart({ModelService(FALSE)}, {DefaultBotCfg})

GetMergedStep == \E res \in MergedResults, d \in MergedFrames : loop_get_merged(res, d)

TrainStep == \E res \in TrainResults : loop_train(res)

AddProbStep ==
    \E res \in ProbResults : \E d \in add_prob(model, df) : loop_add_prob(res, d)

OrderStep ==
    \E order \in MarketOrderResults, attach \in AttachResults, rep \in PositionResults :
        loop_order(order, attach, rep)

loop ==
    \/ loop_is_paused
    \/ loop_pause_sleep
    \/ GetMergedStep
    \/ TrainStep
    \/ AddProbStep
    \/ loop_enrich
    \/ loop_publish
    \/ OrderStep
    \/ loop_poll
    \/ loop_sleep
    \/ loop_backoff

SpecBot == BotInit /\ [][loop]_vars

\* the worker thread keeps being scheduled and every call it makes returns or
\* raises: a step of the loop that stays possible is eventually taken
SpecBotFair == BotInitFair /\ [][loop]_vars /\ WF_vars(loop)

\* a frame of one row more than the published window, of rows of neither rule
\* with closes of their own
LongFrame == [i \in 1..(TAIL_ROWS + 1) |-> FlatRow(40000 + i)]

\* frames of get_merged shorter and longer than the window
WindowFrames == {<<UpRow>>, <<UpRow, FlatRow(37981)>>, LongFrame}

\* the loop on the frames of WindowFrames
loop_window ==
    \/ loop_is_paused
    \/ loop_pause_sleep
    \/ \E res \in MergedResults, d \in WindowFrames : loop_get_merged(res, d)
    \/ TrainStep
    \/ AddProbStep
    \/ loop_enrich
    \/ loop_publish
    \/ OrderStep
    \/ loop_poll
    \/ loop_sleep
    \/ loop_backoff

\* the start with a model file and the default configuration
BotInitWindow == BotStart({ModelService(TRUE)}, {DefaultBotCfg})

SpecBotWindow == BotInitWindow /\ [][loop_window]_vars

\* the start in paper mode with a model file, for loss limits of at least
\* one (MAX_LOSS, config.py line 120) and the pauses CFG.validate accepts
BotInitLoss ==
    /\ BotStartWith([MAX_LOSS : {1, 2}, PAUSE_HR : PauseHrAccepted],
                    {ModelService(TRUE)}, {DefaultBotCfg})
    /\ paper

SpecBotLoss == BotInitLoss /\ [][loop]_vars

\* position limits and margins that CFG.validate accepts (config.py lines
\* 138-144 test POS_SIZE, MARGIN_PER_TRADE and LEVERAGE only): MAX_QTY, in
\* tenths of a contract, and MARGIN_PER_TRADE, in dollars
MaxQtyAccepted == {0, 2}

MarginAccepted == {0, 4000}

BotInitCfg ==
    BotStart({ModelService(TRUE)},
             {BotCfg(1, m, 20, q) : m \in MarginAccepted, q \in MaxQtyAccepted})

SpecBotCfg == BotInitCfg /\ [][loop]_vars

----------------------------------------------------------------------------
(* The worker thread and the dashboard (src/src/ui/dashboard.py), which     *)
(* main.py runs in the main thread.  The worker is any sequence of engine  *)
(* operations, each under the engine's lock, and of publications of a      *)
(* snapshot; the reader is the dashboard script, statement by statement.   *)

\* the opens of the runs with two threads
MaxSharedOpens == 1

\* the snapshots of two cycles: the enriched frames of different data
Snapshots ==
    {enrich(f) : f \in add_prob(ModelService(TRUE), <<UpRow, FlatRow(37981)>>)
                        \cup add_prob(ModelService(TRUE), <<DownRow, FlatRow(42021)>>)}

\* a frame object held by the reader: its rows, and whether it is the very
\* object that TradingBot.df_latest refers to
Frame(rows, same) == [rows |-> rows, same |-> same]

\* a faulty get_df that returns df_latest itself
get_df_shares_snapshot == TRUE

\* trading_bot.py line 129: self.df_latest.copy(): the object returned is not
\* the published one
get_df_shares == FALSE

\* trading_bot.py lines 125-129: get_df
get_df(latest) ==
    IF latest = None THEN None ELSE Some(Frame(copy(latest[1]), get_df_shares))

\* a change the reader makes to its frame in place: the first close is set
\* to zero
reader_change(rows) == [rows EXCEPT ![1] = [rows[1] EXCEPT !.close = 0]]

\* the engine operations the worker calls
EngineOps == {"is_paused", "open", "sync", "poll"}

\* order_service.py lines 105, 133, 161, 174: `with self.lock:` entered by
\* the worker for the operation op
worker_enter(op) ==
    /\ th["worker"] = Idle
    /\ lock = None
    /\ op = "open" => Opens(trades) < MaxSharedOpens
    /\ lock' = Some("worker")
    /\ th' = [th EXCEPT !["worker"] = [op |-> op, stage |-> "held"]]
    /\ UNCHANGED <<service, signal, bot, reader>>

\* the body of the operation and the release of the lock at its return
worker_return ==
    /\ th["worker"].stage = "held"
    /\ lock = Some("worker")
    /\ \/ /\ th["worker"].op = "open"
          /\ \E a \in OpenArgs, order \in MarketOrderResults, attach \in AttachResults :
                open_position(a[1], a[2], a[3], order, attach)
       \/ /\ th["worker"].op = "poll"
          /\ \E px_now \in PollPrices : poll_position_closed(px_now, funding_rate)
       \/ /\ th["worker"].op = "is_paused"
          /\ is_paused
       \/ /\ th["worker"].op = "sync"
          /\ \E rep \in PositionResults : sync_position(rep)
    /\ lock' = None
    /\ th' = [th EXCEPT !["worker"] = Idle]
    /\ UNCHANGED <<signal, bot, reader>>

\* trading_bot.py lines 77-80: the worker publishes the snapshot d of a cycle:
\* a new object, so the object the reader holds is no longer the published one
worker_publish(d) ==
    /\ th["worker"] = Idle
    /\ df_latest' = Some(copy(d))
    /\ reader_df' = IF reader_df = None THEN None
                    ELSE Some(Frame(reader_df[1].rows, FALSE))
    /\ UNCHANGED <<service, signal, pc, steps, model, bot_cfg, dash, mutex>>

\* dashboard.py lines 47-54: bal = bot.order.balance; if bot.order.pos:
dash_check ==
    /\ dash.at = "idle"
    /\ dash' = Dashboard("checked", pos # None, None)
    /\ UNCHANGED <<service, signal, bot, reader_df, mutex>>

\* dashboard.py lines 55 and 58: pos_info = bot.order.pos when the check saw a
\* position, the warning when it saw none
dash_bind ==
    /\ dash.at = "checked"
    /\ dash' = IF dash.saw THEN Dashboard("bound", TRUE, pos)
               ELSE Dashboard("get_df", FALSE, None)
    /\ UNCHANGED <<service, signal, bot, reader_df, mutex>>

\* dashboard.py line 56: pos_info['side'], pos_info['entry']; TypeError when
\* pos_info is None, which ends the run of the script
dash_use ==
    /\ dash.at = "bound"
    /\ dash' = Dashboard(IF dash.pos_info = None THEN "type_error" ELSE "get_df",
                         TRUE, dash.pos_info)
    /\ UNCHANGED <<service, signal, bot, reader_df, mutex>>

\* dashboard.py line 63: df = bot.get_df()
dash_get_df ==
    /\ dash.at = "get_df"
    /\ reader_df' = get_df(df_latest)
    /\ dash' = Dashboard("trades", dash.saw, None)
    /\ UNCHANGED <<service, signal, bot, mutex>>

\* dashboard.py lines 93-95: if bot.order.trades: pd.DataFrame(bot.order.trades);
\* the script ends, and so does a run ended by the TypeError; the next run
\* starts from the top
dash_trades ==
    /\ dash.at \in {"trades", "type_error"}
    /\ dash' = Dashboard("idle", FALSE, None)
    /\ UNCHANGED <<service, signal, bot, reader_df, mutex>>

\* the reader changes the frame it got from get_df in place
reader_mutate ==
    /\ reader_df # None
    /\ reader_df[1].rows[1].close # 0
    /\ reader_df' = Some(Frame(reader_change(reader_df[1].rows), reader_df[1].same))
    /\ df_latest' = IF reader_df[1].same THEN Some(reader_change(reader_df[1].rows))
                    ELSE df_latest
    /\ UNCHANGED <<service, signal, pc, steps, model, bot_cfg, dash, mutex>>

DashInit == BotStart({ModelService(FALSE)}, {DefaultBotCfg})

WorkerEnter == \E op \in EngineOps : worker_enter(op)

WorkerPublish == \E d \in Snapshots : worker_publish(d)

DashNext ==
    \/ WorkerEnter
    \/ worker_return
    \/ WorkerPublish
    \/ dash_check
    \/ dash_bind
    \/ dash_use
    \/ dash_get_df
    \/ dash_trades
    \/ reader_mutate

SpecDash == DashInit /\ [][DashNext]_vars

----------------------------------------------------------------------------
(* The engine's lock with two threads that call the public methods of a    *)
(* live OrderService.  A call is blocked at `with self.lock:` until it     *)
(* acquires the lock; open_position waits for create_market_order and for  *)
(* the create_exit_order calls of _attach_tp_sl inside the with block.      *)

\* a call of thread t in progress: the method, where it is, its arguments and
\* the answer of the market order once it has come
InCall(op, stage, args, order) ==
    [op |-> op, stage |-> stage, args |-> args, order |-> order]

\* a faulty open_position that gives the lock up while it waits for the
\* exchange
lock_during_call_released(t) == None

\* order_service.py lines 105-129 and 85-97: the exchange calls of
\* open_position are made inside `with self.lock:`
lock_during_call(t) == Some(t)

\* a faulty _attach_tp_sl that takes the lock itself
helper_takes_lock_again == TRUE

\* order_service.py lines 60-101: _pnl and _attach_tp_sl have no
\* `with self.lock:`; they run inside the with block of their caller.  The
\* lock is a threading.Lock (line 54), which its holder cannot take twice
helper_takes_lock == FALSE

\* thread t calls the method op; it reaches `with self.lock:`
call(t, op, a) ==
    /\ th[t] = Idle
    /\ op = "open" => Opens(trades) < MaxSharedOpens
    /\ th' = [th EXCEPT ![t] = InCall(op, "blocked", IF op = "open" THEN a ELSE << >>,
                                      << >>)]
    /\ UNCHANGED <<service, signal, bot, reader, lock>>

\* Lock.__enter__: the lock is free and thread t takes it
acquire(t) ==
    /\ th[t] # Idle
    /\ th[t].stage = "blocked"
    /\ lock = None
    /\ lock' = Some(t)
    /\ th' = [th EXCEPT ![t].stage = "held"]
    /\ UNCHANGED <<service, signal, bot, reader>>

\* lines 106-112: no position is held and open_position sends the market
\* order
open_send(t) ==
    /\ th[t] # Idle
    /\ th[t].op = "open"
    /\ th[t].stage = "held"
    /\ ~open_noop(pos)
    /\ lock' = lock_during_call(t)
    /\ th' = [th EXCEPT ![t].stage = "create_market_order"]
    /\ UNCHANGED <<service, signal, bot, reader>>

\* lines 112-129, 85-92: the market order is answered with a fill and
\* _attach_tp_sl sends the exit orders
open_filled(t, order) ==
    /\ th[t] # Idle
    /\ th[t].stage = "create_market_order"
    /\ ~open_failed(paper, order)
    /\ lock' = lock_during_call(t)
    /\ th' = [th EXCEPT ![t].stage = IF helper_takes_lock THEN "blocked"
                                     ELSE "create_exit_order",
                         ![t].order = Some(order)]
    /\ UNCHANGED <<service, signal, bot, reader>>

\* the call of thread t returns: its effect on the engine is complete and
\* the with block releases the lock
return(t) ==
    /\ th[t] # Idle
    /\ \/ /\ th[t].op = "open"
          /\ th[t].stage = "held"
          /\ open_noop(pos)
          /\ \E order \in MarketOrderResults :
                open_position(th[t].args[1], th[t].args[2], th[t].args[3], order, "ok")
       \/ /\ th[t].op = "open"
          /\ th[t].stage = "create_market_order"
          /\ \E order \in MarketOrderResults :
                /\ open_failed(paper, order)
                /\ open_position(th[t].args[1], th[t].args[2], th[t].args[3], order, "ok")
       \/ /\ th[t].op = "open"
          /\ th[t].stage = "create_exit_order"
          /\ \E attach \in AttachResults :
                open_position(th[t].args[1], th[t].args[2], th[t].args[3],
                              th[t].order[1], attach)
       \/ /\ th[t].op = "poll"
          /\ th[t].stage = "held"
          /\ \E px_now \in PollPrices : poll_position_closed(px_now, funding_rate)
       \/ /\ th[t].op = "is_paused"
          /\ th[t].stage = "held"
          /\ is_paused
       \/ /\ th[t].op = "sync"
          /\ th[t].stage = "held"
          /\ \E rep \in PositionResults : sync_position(rep)
    /\ lock' = None
    /\ th' = [th EXCEPT ![t] = Idle]
    /\ UNCHANGED <<signal, bot, reader>>

LockInit == BotStart({ModelService(FALSE)}, {DefaultBotCfg}) /\ ~paper

CallStep == \E t \in Threads, op \in EngineOps, a \in OpenArgs : call(t, op, a)

AcquireStep == \E t \in Threads : acquire(t)

OpenSendStep == \E t \in Threads : open_send(t)

OpenFilledStep == \E t \in Threads, order \in MarketOrderResults : open_filled(t, order)

ReturnStep == \E t \in Threads : return(t)

LockNext == CallStep \/ AcquireStep \/ OpenSendStep \/ OpenFilledStep \/ ReturnStep

SpecLock == LockInit /\ [][LockNext]_vars

----------------------------------------------------------------------------
(* Properties *)

\* the price px has crossed the take-profit or the stop-loss threshold of the
\* position p: long TP = entry (1 + TP_PCT), SL = entry (1 - SL_PCT); short
\* TP = entry (1 - TP_PCT), SL = entry (1 + SL_PCT)
Crossed(p, px) ==
    IF p[1].side = "long"
    THEN px * Pct >= p[1].entry * (Pct + TP_PCT) \/ px * Pct <= p[1].entry * (Pct - SL_PCT)
    ELSE px * Pct <= p[1].entry * (Pct - TP_PCT) \/ px * Pct >= p[1].entry * (Pct + SL_PCT)

\* the exchange accepted the market order of the step's open_position
MarketAccepted(cs) ==
    /\ cs # << >>
    /\ cs[1].fn = "create_market_order"
    /\ cs[1].res # "raise"

\* C1: there is at most one position, and it changes only from none to a
\* position by an open that succeeded (paper, or live with an accepted market
\* order), and from a position to none by a pollClosed whose price crossed a
\* threshold (paper) or by a sync to which the exchange reported no position
\* (live); a held position never changes its side, entry price or quantity.
C1_PositionTransitions ==
    [][ /\ Len(pos') <= 1
        /\ pos' # pos =>
            \/ /\ pos = None
               /\ pos' # None
               /\ last'.op = "open"
               /\ pos'[1].side = last'.side
               /\ pos'[1].qty = last'.qty
               /\ paper \/ MarketAccepted(calls')
            \/ /\ pos # None
               /\ pos' = None
               /\ \/ paper /\ last'.op = "poll" /\ Crossed(pos, last'.px)
                  \/ /\ ~paper
                     /\ last'.op = "sync"
                     /\ calls'[1].res \in {"empty", "none"}
      ]_vars

\* a position was opened, closed and opened again
C1_Witness == pos # None /\ last.op = "open" /\ Len(trades) >= 3

\* C2: open while a position is held changes no engine state, appends no
\* record, calls the exchange not at all and does not raise, in both modes and
\* for all arguments.
C2_OpenIdempotent ==
    [][ (last'.op = "open" /\ pos # None) =>
            /\ UNCHANGED <<pos, balance, trades, loss_cnt, pause_until>>
            /\ calls' = << >>
            /\ ~last'.raised
      ]_vars

\* an open was called with a position held, for the other side
C2_Witness ==
    /\ last.op = "open"
    /\ pos # None
    /\ msgs = << >>
    /\ pos[1].side # last.side

\* C3: in live mode, when create_market_order raises, open returns normally,
\* reports the failure, and leaves position, ledger, balance, loss streak and
\* pause-until as they were; no protective order is submitted.
C3_OpenFailureLeavesState ==
    [][ (/\ last'.op = "open"
         /\ ~paper
         /\ pos = None
         /\ calls' # << >>
         /\ calls'[1].fn = "create_market_order"
         /\ calls'[1].res = "raise") =>
            /\ ~last'.raised
            /\ UNCHANGED <<pos, balance, trades, loss_cnt, pause_until>>
            /\ Len(calls') = 1
            /\ msgs' = <<"open_failed">>
      ]_vars

\* a market order has raised in live mode
C3_Witness ==
    /\ last.op = "open"
    /\ ~paper
    /\ calls # << >>
    /\ calls[1].res = "raise"
    /\ pos = None

\* C4: in live mode, whenever the exchange accepts the market order, open
\* creates the position and appends the entry record; the entry price is the
\* price of the fill record when it has one and the slippage-adjusted estimate
\* when the fill record carries no price value (no key, or None).
C4_AcceptedOrderOpens ==
    [][ (last'.op = "open" /\ ~paper /\ pos = None /\ MarketAccepted(calls')) =>
            LET est   == IF last'.side = "long"
                         THEN (last'.px * (Bp + SLIP_PCT)) \div Bp
                         ELSE (last'.px * (Bp - SLIP_PCT)) \div Bp
                entry == IF calls'[1].res = "price" THEN calls'[1].px ELSE est
            IN  /\ pos' = Some(Position(entry, last'.qty, last'.side))
                /\ trades' = Append(trades,
                                    EntryRecord(now, last'.side, entry, balance))
      ]_vars

\* C5: in live mode, when the attachment of the protective orders fails after
\* the market order was accepted, open returns normally, reports the failure,
\* and the position and its entry record stay.
C5_AttachFailureKeepsPosition ==
    [][ (/\ last'.op = "open"
         /\ ~paper
         /\ pos = None
         /\ MarketAccepted(calls')
         /\ calls'[1].res \in {"price", "nokey"}
         /\ Len(calls') < 3 \/ calls'[3].res = "raise") =>
            /\ ~last'.raised
            /\ pos' # None
            /\ pos'[1].side = last'.side
            /\ pos'[1].qty = last'.qty
            /\ Len(trades') = Len(trades) + 1
            /\ trades'[Len(trades')].side = Upper(last'.side)
            /\ trades'[Len(trades')].price = pos'[1].entry
            /\ msgs' = <<"opened", "attach_failed">>
            /\ UNCHANGED <<balance, loss_cnt, pause_until>>
      ]_vars

\* a live position is held although its take-profit order was refused
C5_Witness ==
    /\ last.op = "open"
    /\ ~paper
    /\ pos # None
    /\ Len(calls) = 2
    /\ calls[2].res = "raise"
    /\ msgs = <<"opened", "attach_failed">>

\* C6: in paper mode with a position held, pollClosed(p) with p at or beyond
\* the take-profit or the stop-loss threshold closes in one step: the balance
\* grows by pnl(p), exactly one record CLOSE_<SIDE> with price p, the new
\* balance and the PnL is appended, the loss streak is updated (plus one on a
\* negative PnL, zero otherwise) and the position becomes none.
C6_PollCloses ==
    [][ (last'.op = "poll" /\ paper /\ pos # None /\ Crossed(pos, last'.px)) =>
            LET p   == last'.px
                pnl == _pnl(pos, p, funding_rate)
            IN  /\ balance' = balance + pnl
                /\ trades' = Append(trades,
                       [time |-> now,
                        side |-> IF pos[1].side = "long" THEN "CLOSE_LONG"
                                                         ELSE "CLOSE_SHORT",
                        price |-> p, bal |-> balance + pnl, pnl |-> Some(pnl)])
                /\ loss_cnt' = IF pnl < 0 THEN loss_cnt + 1 ELSE 0
                /\ pos' = None
                /\ ~last'.raised
      ]_vars

\* a short position was closed at its stop-loss
C6_Witness ==
    /\ last.op = "poll"
    /\ paper
    /\ pos = None
    /\ msgs # << >>
    /\ msgs[1] = "closed"
    /\ trades[Len(trades)].side = "CLOSE_SHORT"
    /\ trades[Len(trades)].pnl[1] < 0

\* C7: pollClosed changes nothing and calls the exchange not at all when no
\* position is held, when the engine is in live mode, or when the price has
\* crossed neither threshold of the held side.
C7_PollNoop ==
    [][ (last'.op = "poll" /\ (pos = None \/ ~paper \/ ~Crossed(pos, last'.px))) =>
            /\ UNCHANGED <<pos, balance, trades, loss_cnt, pause_until>>
            /\ calls' = << >>
            /\ ~last'.raised
      ]_vars

\* pollClosed was called in live mode on a position whose threshold the price
\* has crossed
C7_Witness ==
    /\ last.op = "poll"
    /\ ~paper
    /\ pos # None
    /\ Crossed(pos, last.px)

\* C8: sync changes the position only by clearing it.  In live mode with a
\* position held the position becomes none exactly when the exchange reports
\* no position, and stays otherwise; in paper mode or with no position held
\* nothing changes and the exchange is not asked.  Balance, ledger, loss
\* streak and pause-until never change.
C8_SyncOnlyClears ==
    [][ last'.op = "sync" =>
            /\ pos' = pos \/ pos' = None
            /\ (~paper /\ pos # None) =>
                  /\ Len(calls') = 1
                  /\ calls'[1].fn = "fetch_position"
                  /\ pos' = None <=> calls'[1].res \in {"empty", "none"}
            /\ (paper \/ pos = None) => (pos' = pos /\ calls' = << >>)
            /\ UNCHANGED <<balance, trades, loss_cnt, pause_until>>
      ]_vars

\* sync cleared a live position
C8_Witness ==
    /\ last.op = "sync"
    /\ ~paper
    /\ pos = None
    /\ msgs = <<"sync_reset">>
    /\ trades # << >>

\* the number of closes with a negative PnL at the end of the records
\* tr[k+1 .. i], back to the last close with a non-negative PnL (entry
\* records are skipped)
RECURSIVE LossRun(_, _, _)
LossRun(tr, k, i) ==
    IF i <= k THEN 0
    ELSE IF tr[i].pnl = None THEN LossRun(tr, k, i - 1)
    ELSE IF tr[i].pnl[1] < 0 THEN 1 + LossRun(tr, k, i - 1)
    ELSE 0

\* the consecutive losing closes at the end of the ledger
TrailingLosses(tr) == LossRun(tr, 0, Len(tr))

\* the consecutive losing closes at the end of the ledger that came after the
\* last resume (the last expiry of a pause seen by isPaused)
LossesSinceResume(tr, k) == LossRun(tr, k, Len(tr))

\* the step is a close by pollClosed
CloseStep == last'.op = "poll" /\ Len(trades') = Len(trades) + 1

\* what C9 says of isPaused: true on every call before pause-until; once
\* pause-until has elapsed the call returns false and the streak is zero
C9_IsPausedPart ==
    last'.op = "is_paused" =>
        /\ (pause_until # None /\ now < pause_until[1]) => last'.ret = Some(TRUE)
        /\ (pause_until # None /\ now >= pause_until[1]) =>
              (last'.ret = Some(FALSE) /\ loss_cnt' = 0)

\* C9 as claimed: after MAX_LOSS consecutive closes with a negative PnL (no
\* non-negative close in between) the engine is paused at once: pause-until is
\* set and the clock is before it, and isPaused returns true on every call
\* before pause-until; after pause-until the next isPaused returns false with
\* the streak zero; fewer than MAX_LOSS consecutive losing closes start no pause.
C9_AsClaimed ==
    [][ /\ (CloseStep /\ TrailingLosses(trades') >= cfg.MAX_LOSS) =>
              (pause_until' # None /\ now' < pause_until'[1])
        /\ (CloseStep /\ TrailingLosses(trades') < cfg.MAX_LOSS) =>
              pause_until' = pause_until
        /\ C9_IsPausedPart
      ]_vars

\* C9 (amended): the same with the consecutive losing closes counted since the
\* last non-negative close or the last resume, whichever is later: the close
\* that makes them MAX_LOSS or more sets pause-until to PAUSE_HR after the
\* clock, a close that leaves them below MAX_LOSS leaves pause-until alone.
C9_PauseAfterMaxLoss ==
    [][ /\ (CloseStep /\ LossesSinceResume(trades', resume_len') >= cfg.MAX_LOSS) =>
              /\ pause_until' = Some(now' + cfg.PAUSE_HR)
              /\ cfg.PAUSE_HR > 0 => now' < pause_until'[1]
        /\ (CloseStep /\ LossesSinceResume(trades', resume_len') < cfg.MAX_LOSS) =>
              pause_until' = pause_until
        /\ C9_IsPausedPart
      ]_vars

\* the engine has just been paused by the close that completed MAX_LOSS
\* consecutive losses
C9_Witness ==
    /\ last.op = "poll"
    /\ pause_until # None
    /\ now < pause_until[1]
    /\ LossesSinceResume(trades, resume_len) = cfg.MAX_LOSS
    /\ trades[Len(trades)].pnl # None

\* C10: isPaused returns true exactly while pause-until is set and the clock
\* is before it, and then changes nothing.  The first call at or after
\* pause-until unsets pause-until, resets the loss streak, reports the resume
\* and returns false; a call with pause-until unset returns false and changes
\* nothing.  Whenever isPaused returns false, pause-until is unset afterwards.
C10_IsPaused ==
    [][ last'.op = "is_paused" =>
            /\ last'.ret \in {Some(TRUE), Some(FALSE)}
            /\ last'.ret = Some(TRUE) <=> (pause_until # None /\ now < pause_until[1])
            /\ last'.ret = Some(TRUE) =>
                  (UNCHANGED <<pause_until, loss_cnt>> /\ msgs' = << >>)
            /\ (pause_until # None /\ now >= pause_until[1]) =>
                  /\ last'.ret = Some(FALSE)
                  /\ pause_until' = None
                  /\ loss_cnt' = 0
                  /\ msgs' = <<"resumed">>
            /\ pause_until = None =>
                  (UNCHANGED <<pause_until, loss_cnt>> /\ msgs' = << >>)
            /\ last'.ret = Some(FALSE) => pause_until' = None
            /\ UNCHANGED <<pos, balance, trades>>
            /\ ~last'.raised
      ]_vars

\* isPaused has just resumed trading after a pause
C10_Witness ==
    /\ last.op = "is_paused"
    /\ last.ret = Some(FALSE)
    /\ msgs = <<"resumed">>
    /\ pause_until = None
    /\ loss_cnt = 0
    /\ TrailingLosses(trades) >= cfg.MAX_LOSS

\* C11: every time pause-until is set, the value set is strictly later than
\* the clock at that moment and strictly later than the time of the close
\* that triggered it, for every pause duration PAUSE_HR that the configuration
\* accepts.
C11_PauseInFuture ==
    [][ (pause_until' # None
         /\ (pause_until' # pause_until \/ (CloseStep /\ loss_cnt' >= cfg.MAX_LOSS))) =>
            /\ now' < pause_until'[1]
            /\ trades' # << >>
            /\ trades'[Len(trades')].time < pause_until'[1]
      ]_vars

\* the step is the first isPaused call at or after pause-until
ExpiryStep == last'.op = "is_paused" /\ pause_until # None /\ now' >= pause_until[1]

\* C12: on every close by pollClosed the loss streak becomes streak + 1 when
\* the realized PnL is negative and 0 when it is not; apart from that and the
\* reset at pause expiry in isPaused no operation changes the streak, and the
\* streak is never negative.
C12_LossStreak ==
    [][ /\ CloseStep =>
              loss_cnt' = IF trades'[Len(trades')].pnl[1] < 0 THEN loss_cnt + 1 ELSE 0
        /\ ExpiryStep => loss_cnt' = 0
        /\ (~CloseStep /\ ~ExpiryStep) => loss_cnt' = loss_cnt
        /\ loss_cnt >= 0
        /\ loss_cnt' >= 0
      ]_vars

\* a close without a loss has reset the streak that the close before it began
C12_Witness ==
    /\ last.op = "poll"
    /\ Len(trades) >= 4
    /\ trades[Len(trades)].pnl # None
    /\ trades[Len(trades)].pnl[1] >= 0
    /\ trades[Len(trades) - 2].pnl # None
    /\ trades[Len(trades) - 2].pnl[1] < 0
    /\ loss_cnt = 0

\* C13: every transition of the position from none to open and from open to
\* none (a close by pollClosed as well as a close by sync) appends exactly one
\* record to the ledger.
C13_TransitionAppendsOne ==
    [][ ((pos = None) # (pos' = None)) =>
            /\ Len(trades') = Len(trades) + 1
            /\ SubSeq(trades', 1, Len(trades)) = trades
      ]_vars

\* the step is an operation that does nothing or fails: an open with a
\* position held or with a market order that failed, a pollClosed that closes
\* nothing, a sync that clears nothing
NoopOrFailedStep ==
    \/ last'.op = "open" /\ (pos # None \/ pos' = None)
    \/ last'.op = "poll" /\ (pos = None \/ ~paper \/ ~Crossed(pos, last'.px))
    \/ last'.op = "sync" /\ pos' = pos

\* C14: the ledger is append-only: every step leaves the ledger it found as a
\* prefix of the new one (so every earlier ledger of a run is a prefix of every
\* later one), and an operation that is a no-op or fails appends nothing.
C14_LedgerAppendOnly ==
    [][ /\ Len(trades') >= Len(trades)
        /\ SubSeq(trades', 1, Len(trades)) = trades
        /\ NoopOrFailedStep => trades' = trades
      ]_vars

\* an open has failed on a ledger that holds the records of two positions
C14_Witness ==
    /\ last.op = "open"
    /\ msgs = <<"open_failed">>
    /\ Len(trades) >= 2
    /\ trades[1].side # trades[2].side

\* C15: in paper mode, open(price, qty, side) with no position held calls the
\* exchange not at all, sets the position to (side, qty, entry) with entry =
\* price (1 + SLIP_PCT) for long and price (1 - SLIP_PCT) for short, and
\* appends an entry record with that entry price and the unchanged balance;
\* price 50000, long, SLIP_PCT 0.0005 gives entry 50025.
C15_PaperOpen ==
    [][ (last'.op = "open" /\ paper /\ pos = None) =>
            /\ calls' = << >>
            /\ pos' # None
            /\ pos'[1].side = last'.side
            /\ pos'[1].qty = last'.qty
            /\ pos'[1].entry * Bp = IF last'.side = "long"
                                    THEN last'.px * (Bp + SLIP_PCT)
                                    ELSE last'.px * (Bp - SLIP_PCT)
            /\ trades' = Append(trades, [time |-> now, side |-> Upper(last'.side),
                                         price |-> pos'[1].entry, bal |-> balance,
                                         pnl |-> None])
            /\ balance' = balance
            /\ slip_px(50000, "long") = 50025
      ]_vars

\* a short paper position was opened on a balance that earlier closes changed
C15_Witness ==
    /\ last.op = "open"
    /\ paper
    /\ pos # None
    /\ pos[1].side = "short"
    /\ pos[1].entry < last.px
    /\ balance # init_balance

\* price change times quantity times leverage of the position p closed at x
RawPnl(p, x) ==
    (IF p[1].side = "long" THEN x - p[1].entry ELSE p[1].entry - x)
        * p[1].qty * LEVERAGE * Bp

\* the trade fee of closing the position p at x
Fee(p, x) == Abs(x * p[1].qty) * TRADE_FEE

\* the funding of the position p at the funding rate r
Funding(p, r) == Abs(p[1].entry * p[1].qty) * r

\* C16: pnl(exit) of a held position is delta x quantity x LEVERAGE
\* - |exit x quantity| x TRADE_FEE - |entry x quantity| x fundingRate, with
\* delta = exit - entry for long and entry - exit for short; with exit = entry
\* and funding 0 it is minus the fee (entry = exit = 50000, quantity 0.1, fee
\* rate 0.0006: -3.0).
C16_Pnl ==
    [][ CloseStep =>
            LET x == last'.px
                v == RawPnl(pos, x) - Fee(pos, x) - Funding(pos, funding_rate)
            IN  /\ trades'[Len(trades')].pnl = Some(v)
                /\ balance' = balance + v
                /\ _pnl(pos, x, funding_rate) = v
                /\ _pnl(Some(Position(50000, 1, "long")), 50000, 0) = 0 - 3 * 10 * Bp
                /\ _pnl(Some(Position(50000, 1, "short")), 50000, 0) = 0 - 3 * 10 * Bp
      ]_vars

\* a short position was closed with a profit while the exchange reported a
\* funding rate
C16_Witness ==
    /\ last.op = "poll"
    /\ pos = None
    /\ funding_rate > 0
    /\ trades # << >>
    /\ trades[Len(trades)].side = "CLOSE_SHORT"
    /\ trades[Len(trades)].pnl[1] > 0

\* C17: in paper mode the funding term of the PnL realized by pollClosed is 0
\* whatever funding rate the exchange would report: the balance change of a
\* paper close depends on entry, exit, quantity, leverage and fee rate only.
C17_PaperFundingZero ==
    [][ (CloseStep /\ paper) =>
            /\ balance' - balance = RawPnl(pos, last'.px) - Fee(pos, last'.px)
            /\ trades'[Len(trades')].pnl = Some(balance' - balance)
      ]_vars

\* C18: in live mode a successful open sends exactly three orders, in this
\* order: the market order (buy for long, sell for short), the take-profit
\* exit order, the stop-loss exit order; both exit orders carry the position
\* quantity and the side opposite to the entry.  An open that reports a
\* failure sends a prefix of these.
C18_LiveOpenOrders ==
    [][ (last'.op = "open" /\ ~paper /\ pos = None) =>
            /\ Len(calls') \in 1..3
            /\ calls'[1].fn = "create_market_order"
            /\ calls'[1].side = (IF last'.side = "long" THEN "buy" ELSE "sell")
            /\ calls'[1].qty = last'.qty
            /\ \A i \in 2..Len(calls') :
                  /\ calls'[i].fn = "create_exit_order"
                  /\ calls'[i].side = (IF last'.side = "long" THEN "SELL" ELSE "BUY")
                  /\ calls'[i].qty = last'.qty
                  /\ calls'[i].tp = (i = 2)
            /\ msgs' = <<"opened">> =>
                  /\ Len(calls') = 3
                  /\ \A i \in 1..3 : calls'[i].res # "raise"
                  /\ pos' # None
                  /\ pos'[1].qty = last'.qty
      ]_vars

\* a live short position was opened and both protective orders were accepted
C18_Witness ==
    /\ last.op = "open"
    /\ ~paper
    /\ pos # None
    /\ last.side = "short"
    /\ msgs = <<"opened">>
    /\ Len(calls) = 3
    /\ calls[2].side = "BUY"
    /\ calls[3].res = "ok"

\* the columns of a row that enrich reads
Features(row) ==
    [ema_fast |-> row.ema_fast, ema_slow |-> row.ema_slow, rsi |-> row.rsi,
     macd |-> row.macd, macd_sig |-> row.macd_sig, prob_up |-> row.prob_up]

\* the columns of a row that enrich assigns
Flags(row) ==
    <<row.rule_long, row.rule_short, row.long, row.short, row.exit_l, row.exit_s>>

\* C19: in every row returned by enrich each flag equals its rule: rule_long
\* = ema_fast > ema_slow and rsi < 40 and macd > macd_sig; rule_short =
\* ema_fast < ema_slow and rsi > 60 and macd < macd_sig; long = rule_long and
\* prob_up > BUY_TH; short = rule_short and prob_up < SHORT_TH; exit_l =
\* prob_up < SELL_TH or rsi > 70 or macd < macd_sig; exit_s = prob_up > BUY_TH
\* or rsi < 30 or macd > macd_sig.  So a row with long has rule_long and
\* prob_up > BUY_TH, a row with short has rule_short and prob_up < SHORT_TH.
C19_FlagsEqualRules ==
    [][ last'.op = "enrich" =>
            /\ Len(enriched') = Len(df)
            /\ \A i \in 1..Len(enriched') :
                  LET r == enriched'[i] IN
                  /\ r.rule_long = (r.ema_fast > r.ema_slow /\ r.rsi < 40
                                    /\ r.macd > r.macd_sig)
                  /\ r.rule_short = (r.ema_fast < r.ema_slow /\ r.rsi > 60
                                     /\ r.macd < r.macd_sig)
                  /\ r.long = (r.rule_long /\ r.prob_up > BUY_TH)
                  /\ r.short = (r.rule_short /\ r.prob_up < SHORT_TH)
                  /\ r.exit_l = (r.prob_up < SELL_TH \/ r.rsi > 70
                                 \/ r.macd < r.macd_sig)
                  /\ r.exit_s = (r.prob_up > BUY_TH \/ r.rsi < 30
                                 \/ r.macd > r.macd_sig)
                  /\ r.long => (r.rule_long /\ r.prob_up > BUY_TH)
                  /\ r.short => (r.rule_short /\ r.prob_up < SHORT_TH)
      ]_vars

\* enrich returned a frame with a long row, and a row that has rule_long but
\* sits exactly at BUY_TH and so is no long
C19_Witness ==
    /\ last.op = "enrich"
    /\ Len(enriched) = 2
    /\ enriched[1].long
    /\ enriched[2].rule_long
    /\ enriched[2].prob_up = BUY_TH
    /\ ~enriched[2].long

TpOf(s, e) == IF s = "long" THEN e * (Pct + TP_PCT) ELSE e * (Pct - TP_PCT)

SlOf(s, e) == IF s = "long" THEN e * (Pct - SL_PCT) ELSE e * (Pct + SL_PCT)

\* C29: for the same side and entry price the thresholds that the paper
\* pollClosed tests are the prices that the live open submits as protective
\* orders (there rounded to the tick): for long TP = entry (1 + TP_PCT) above
\* and SL = entry (1 - SL_PCT) below the entry, for short TP = entry
\* (1 - TP_PCT) below and SL = entry (1 + SL_PCT) above.
C29_SameThresholds ==
    [][ /\ (last'.op = "poll" /\ paper /\ pos # None) =>
              LET s == pos[1].side
                  e == pos[1].entry
                  x == last'.px * Pct
              IN  pos' = None <=>
                     IF s = "long" THEN x >= TpOf(s, e) \/ x <= SlOf(s, e)
                                   ELSE x <= TpOf(s, e) \/ x >= SlOf(s, e)
        /\ (last'.op = "open" /\ ~paper /\ pos = None /\ Len(calls') = 3) =>
              LET s == last'.side
                  e == pos'[1].entry
              IN  /\ calls'[2].tp
                  /\ calls'[2].px = price_to_precision(TpOf(s, e))
                  /\ ~calls'[3].tp
                  /\ calls'[3].px = price_to_precision(SlOf(s, e))
                  /\ s = "long" => (SlOf(s, e) < e * Pct /\ e * Pct < TpOf(s, e))
                  /\ s = "short" => (TpOf(s, e) < e * Pct /\ e * Pct < SlOf(s, e))
      ]_vars

\* a live short position was opened with its take-profit order below and its
\* stop-loss order above the entry price
C29_Witness ==
    /\ last.op = "open"
    /\ ~paper
    /\ pos # None
    /\ pos[1].side = "short"
    /\ Len(calls) = 3
    /\ calls[2].px < pos[1].entry
    /\ calls[3].px > pos[1].entry

\* C30: the pause windows are monotonic: with a clock that never goes back,
\* every value newly assigned to pause-until is at or after every value
\* assigned to it before, so no later close shortens a pause.
C30_PauseMonotonic ==
    [][ /\ (pause_set' # pause_set \/ (CloseStep /\ loss_cnt' >= cfg.MAX_LOSS)) =>
              /\ pause_set' # None
              /\ pause_until' = pause_set'
              /\ pause_set # None => pause_set'[1] >= pause_set[1]
        /\ (pause_until' # pause_until /\ pause_until' # None) =>
              pause_until' = pause_set'
        /\ now' >= now
      ]_vars

\* a close has assigned pause-until again while an earlier pause was set, at a
\* later time of the clock
C30_Witness ==
    /\ last.op = "poll"
    /\ pause_until # None
    /\ loss_cnt > cfg.MAX_LOSS
    /\ trades[Len(trades)].time > trades[Len(trades) - 2].time

\* the step is the call named of the worker's loop
LoopCall(name) == steps' = Append(steps, name)

\* the step leaves the published snapshot and the engine's position, balance,
\* ledger, loss streak and pause-until as they are and calls no exchange
\* function
NoEffect ==
    /\ UNCHANGED <<df_latest, pos, balance, trades, loss_cnt, pause_until>>
    /\ calls' = << >>

\* C21: in a cycle whose isPaused returned true the loop does nothing but
\* sleep: the pause check is the only call of the cycle, the sleep leaves the
\* snapshot, the model and the engine alone, and the next thing is the pause
\* check of the next cycle.  So no open is called while now < pause-until.
C21_PausedCycleIdle ==
    [][ /\ (last'.op = "is_paused" /\ last'.ret = Some(TRUE)) =>
              /\ pc' = "pause_sleep"
              /\ steps' = <<"is_paused">>
        /\ pc = "pause_sleep" =>
              /\ steps = <<"is_paused">>
              /\ steps' = << >>
              /\ pc' = "is_paused"
              /\ NoEffect
              /\ model' = model
        /\ LoopCall("open") => (pause_until = None \/ now >= pause_until[1])
      ]_vars

\* the loop has slept through a cycle in which the engine was paused
C21_Witness ==
    /\ last.op = "pause_sleep"
    /\ pc = "is_paused"
    /\ pause_until # None
    /\ now < pause_until[1]

\* C22: whatever a step of a cycle raises, the loop catches it, reports it,
\* sleeps and begins another cycle; the loop never terminates and a next cycle
\* always eventually begins.
C22_LoopNeverEnds ==
    /\ [][ /\ last'.raised => pc' = "backoff"
           /\ pc = "backoff" => (msgs' = <<"loop_error">> /\ pc' = "is_paused")
         ]_vars
    /\ [](pc # "terminated")
    /\ []<>(pc = "is_paused" /\ steps = << >>)

\* a cycle has failed in the sync with the exchange, was reported, and the
\* next cycle is about to begin
C22_Witness ==
    /\ last.op = "backoff"
    /\ msgs = <<"loop_error">>
    /\ pc = "is_paused"
    /\ pos # None

\* C23: when get_merged raises for lack of data the cycle is abandoned without
\* effect: nothing but the pause check was called before, the failure and its
\* handling leave the snapshot, the model and the engine as the pause check
\* left them, no train, predict, open, sync or poll is called, and the loop
\* goes on to the next cycle.
C23_NoDataNoEffect ==
    [][ /\ (LoopCall("get_merged") /\ last'.raised) =>
              /\ steps = <<"is_paused">>
              /\ pc' = "backoff"
              /\ NoEffect
              /\ model' = model
        /\ (pc = "backoff" /\ steps = <<"is_paused", "get_merged">>) =>
              /\ pc' = "is_paused"
              /\ steps' = << >>
              /\ NoEffect
              /\ model' = model
      ]_vars

\* a cycle was abandoned for lack of data while a position was held and a
\* snapshot was published, and the next cycle is about to begin
C23_Witness ==
    /\ last.op = "backoff"
    /\ pc = "is_paused"
    /\ pos # None
    /\ df_latest # None
    /\ \E i \in 1..Len(trades) : trades[i].pnl # None

\* C26: open is called only when no position is held and the last enriched
\* row has long or short set; the side is long with the long flag and short
\* with the short flag, the price is the last row's close, the quantity is
\* positive and at most MAX_QTY; with neither flag set no open is called.
C26_OpenArgs ==
    [][ pc = "order" /\ enriched # << >> =>
          LET row == enriched[Len(enriched)] IN
          /\ LoopCall("open") =>
                /\ pos = None
                /\ row.long \/ row.short
                /\ row.long => last'.side = "long"
                /\ row.short => last'.side = "short"
                /\ last'.op = "open"
                /\ last'.px = row.close
                /\ last'.qty > 0
                /\ last'.qty <= bot_cfg.MAX_QTY
          /\ (~row.long /\ ~row.short) => ~LoopCall("open")
      ]_vars

\* the training is due: no model is loaded, or more than RETRAIN_HR hours
\* have passed since t_last_train, which is the beginning of time until the
\* first training of this process completes
TrainDue ==
    \/ ~model.loaded
    \/ model.t_last_train = None
    \/ now - model.t_last_train[1] > bot_cfg.RETRAIN_HR

PublishStep == \E d \in Snapshots : worker_publish(d)

ReaderAccess == dash.at \in {"idle", "checked", "trades"} /\ dash' # dash

\* C25: every access of the worker and of the reader to the engine's
\* position, balance, ledger and risk state happens while the thread holds
\* the engine's lock, so no thread uses engine state in the middle of an
\* operation: a position seen by the reader does not disappear between its
\* check and the use of its fields.
C25_EngineAccessLocked ==
    /\ [][ /\ ReaderAccess => lock = Some("reader")
           /\ last' # last => lock = Some("worker")
         ]_vars
    /\ [](dash.at # "type_error")

\* thread t is inside open_position, waiting for the exchange to answer
\* create_market_order or create_exit_order
WaitingForExchange(t) ==
    /\ th[t] # Idle
    /\ th[t].op = "open"
    /\ th[t].stage \in {"create_market_order", "create_exit_order"}

\* the call of thread u, if any, has not got past `with self.lock:`
NotProceeding(u) ==
    /\ th[u] = Idle \/ th[u].stage = "blocked"
    /\ th'[u] = Idle \/ th'[u].stage = "blocked"

\* C28: while an open waits for the exchange to answer create_market_order or
\* create_exit_order the engine's lock stays held by it: an isPaused,
\* pollClosed, sync or open that another thread starts meanwhile does not get
\* past the lock, and the engine's state stays as it is, until that open
\* returns.
C28_LockHeldWhileWaiting ==
    [][ \A t \in Threads : WaitingForExchange(t) =>
          /\ lock = Some(t)
          /\ \A u \in Threads \ {t} : NotProceeding(u)
          /\ th'[t] # Idle =>
                /\ lock' = Some(t)
                /\ UNCHANGED service
          /\ th'[t] = Idle => (lock' = None /\ last'.op = "open")
      ]_vars

\* the worker's open waits for the exit orders while the pause check of the
\* other thread is blocked at the lock
C28_Witness ==
    /\ WaitingForExchange("worker")
    /\ th["worker"].stage = "create_exit_order"
    /\ th["reader"] # Idle
    /\ th["reader"].op = "is_paused"
    /\ th["reader"].stage = "blocked"
    /\ lock = Some("worker")

\* the ledger record is a closing record
IsClose(rec) == rec.side \in {"CLOSE_LONG", "CLOSE_SHORT"}

Alternates(tr, i) ==
    \A j \in 1..i :
        IF j % 2 = 1
        THEN tr[j].side \in {"LONG", "SHORT"} /\ tr[j].pnl = None
        ELSE /\ tr[j].pnl # None
             /\ tr[j].side = (IF tr[j - 1].side = "LONG" THEN "CLOSE_LONG"
                                                       ELSE "CLOSE_SHORT")

\* C35: in paper mode a position is held exactly when the last record of the
\* ledger is an entry record; entry and CLOSE records alternate strictly,
\* beginning with an entry, and every CLOSE_<SIDE> record comes right after an
\* entry record of the same side.
C35_LedgerAlternates ==
    paper =>
        /\ Alternates(trades, Len(trades))
        /\ pos # None <=> (trades # << >> /\ ~IsClose(trades[Len(trades)]))
        /\ pos # None => Upper(pos[1].side) = trades[Len(trades)].side

\* the paper ledger holds a closed long position, a closed short position
\* and the entry of a position that is held
C35_Witness ==
    /\ paper
    /\ Len(trades) = 5
    /\ pos # None
    /\ trades[2].side = "CLOSE_LONG"
    /\ trades[4].side = "CLOSE_SHORT"

RECURSIVE SumPnl(_, _)
\* the sum of the pnl fields of the closing records among the first i records
SumPnl(tr, i) ==
    IF i = 0 THEN 0
    ELSE SumPnl(tr, i - 1) + (IF tr[i].pnl = None THEN 0 ELSE tr[i].pnl[1])

\* C36: in paper mode the balance is the initial balance plus the sum of the
\* pnl fields of all CLOSE records, the bal field of every record is the
\* balance right after the operation that appended it, and open, sync and
\* isPaused never change the balance.
C36_BalanceIsLedgerSum ==
    /\ [](paper =>
             /\ balance = init_balance + SumPnl(trades, Len(trades))
             /\ \A i \in 1..Len(trades) :
                   trades[i].bal = init_balance + SumPnl(trades, i))
    /\ [][ paper =>
             /\ Len(trades') > Len(trades) => trades'[Len(trades')].bal = balance'
             /\ last'.op \in {"open", "sync", "is_paused"} => balance' = balance
         ]_vars

\* a paper position was opened after a close with a PnL that is not zero: the
\* entry record carries the balance that the close left
C36_Witness ==
    /\ paper
    /\ last.op = "open"
    /\ Len(trades) = 3
    /\ trades[2].pnl # None
    /\ trades[2].pnl[1] # 0
    /\ trades[3].bal = balance
    /\ balance # init_balance

\* the exchange calls of the step that submit a protective order
ExitOrders(cs) == SelectSeq(cs, LAMBDA c : c.fn = "create_exit_order")

\* C37: in live mode, when the take-profit order fails the stop-loss order is
\* not submitted; when the take-profit order succeeds and the stop-loss order
\* fails the take-profit order stays, nothing cancels it; and no later
\* operation submits a protective order for the position again.
C37_AttachNoRetry ==
    [][ ~paper =>
          LET xs == ExitOrders(calls') IN
          /\ xs # << >> =>
                /\ last'.op = "open"
                /\ pos = None
                /\ pos' # None
                /\ xs[1].tp
                /\ Len(xs) <= 2
                /\ xs[1].res = "raise" => Len(xs) = 1
                /\ Len(xs) = 2 => (xs[1].res = "ok" /\ ~xs[2].tp)
          /\ \A i \in 1..Len(calls') :
                calls'[i].fn \in {"create_market_order", "create_exit_order",
                                  "fetch_position", "fetch_funding_rate"}
          /\ pos # None => xs = << >>
      ]_vars

\* a live position was opened and its take-profit order failed: the call
\* that failed is the last exchange call of the open, no stop-loss order was
\* submitted
C37_Witness ==
    /\ ~paper
    /\ pos # None
    /\ last.op = "open"
    /\ Len(calls) = 2
    /\ calls[2].fn = "create_exit_order"
    /\ calls[2].tp
    /\ calls[2].res = "raise"
    /\ msgs = <<"opened", "attach_failed">>

\* C31: after a cycle that failed, the seconds the loop sleeps before the
\* next cycle are more than SLEEP_SEC, the seconds it sleeps after a cycle
\* that did not fail.  The handler sleeps 30 seconds and the default of
\* SLEEP_SEC is 60: the statement fails at the first backoff.
C31_BackoffLonger ==
    [][ (pc = "backoff" /\ last'.op = "backoff") => last'.px > bot_cfg.SLEEP_SEC ]_vars

\* snap is the trailing window of at most TAIL_ROWS rows of the frame d
IsWindow(snap, d) ==
    /\ snap # None
    /\ Len(snap[1]) = Min(Len(d), TAIL_ROWS)
    /\ \A i \in 1..Len(snap[1]) : snap[1][i] = d[Len(d) - Len(snap[1]) + i]

\* the cycle has published its snapshot
Published == \E i \in 1..Len(steps) : steps[i] = "publish"

\* C32: a cycle that reaches the order step has published before any open,
\* sync or poll of that cycle, and the snapshot is then the trailing window
\* (at most 500 rows) of the enriched table whose last row drives the order
\* decision; the snapshot is replaced by the publish step only, by the window
\* of the table enriched in that cycle.
C32_SnapshotIsWindow ==
    /\ [](pc \in {"order", "poll"} =>
            /\ Published
            /\ IsWindow(df_latest, enriched)
            /\ Len(df_latest[1]) <= TAIL_ROWS)
    /\ [][ /\ last'.op \in {"open", "sync", "poll"} =>
                /\ pc \in {"order", "poll"}
                /\ df_latest' = df_latest
                /\ enriched' = enriched
           /\ last'.op = "open" =>
                last'.px = df_latest[1][Len(df_latest[1])].close
           /\ df_latest' # df_latest =>
                /\ pc = "publish"
                /\ steps[Len(steps)] = "enrich"
                /\ IsWindow(df_latest', enriched)
       ]_vars

\* a position is held and a cycle whose table has more rows than the window
\* has called sync and poll: the snapshot has TAIL_ROWS rows, the last of them
\* the row whose close was polled
C32_Witness ==
    /\ last.op = "poll"
    /\ pos # None
    /\ Len(enriched) = TAIL_ROWS + 1
    /\ df_latest # None
    /\ Len(df_latest[1]) = TAIL_ROWS
    /\ df_latest[1][TAIL_ROWS].close = last.px

\* C34: with the engine driven by the loop only, in paper mode and with
\* MAX_LOSS at least one, the loss streak never exceeds MAX_LOSS, no position
\* is held while pause_until is set, and no close (so no losing close) is
\* recorded while pause_until is set.
C34_StreakBounded ==
    /\ []((paper /\ cfg.MAX_LOSS >= 1) =>
             /\ loss_cnt <= cfg.MAX_LOSS
             /\ pause_until # None => pos = None)
    /\ [][ (paper /\ cfg.MAX_LOSS >= 1 /\ pause_until # None) =>
              /\ trades' = trades
              /\ loss_cnt' <= loss_cnt ]_vars

\* the loop has asked is_paused after the losing closes that reached
\* MAX_LOSS and was told to wait: the streak is at the limit, the pause is
\* set and no position is held
C34_Witness ==
    /\ paper
    /\ cfg.MAX_LOSS >= 1
    /\ last.op = "is_paused"
    /\ last.ret = Some(TRUE)
    /\ loss_cnt = cfg.MAX_LOSS
    /\ pause_until # None
    /\ pos = None
    /\ Len(trades) = 2 * cfg.MAX_LOSS

\* the order step starts with a position held (line 86 finds self.order.pos)
HeldOrderStep == pc = "order" /\ enriched # << >> /\ pos # None

\* the step is a sync_position to which the exchange reported no position
SyncFoundNone ==
    /\ last'.op = "sync"
    /\ calls' # << >>
    /\ calls'[1].fn = "fetch_position"
    /\ no_pos_ex(calls'[1].res)

\* what C38 says besides the order of the two calls: the poll gets the last
\* close, no open is called with a position held, and a held position changes
\* only by being closed, by a poll whose price crossed a threshold in paper
\* mode or by a sync that found no position in live mode, whatever exit_l and
\* exit_s of the last row are
C38_ClosePart ==
    /\ pc = "poll" =>
          /\ last'.op = "poll"
          /\ last'.px = enriched[Len(enriched)].close
          /\ steps[Len(steps)] = "sync"
    /\ last'.op = "open" => (pc = "order" /\ pos = None)
    /\ (pos # None /\ pos' # pos) =>
          /\ pos' = None
          /\ \/ paper /\ last'.op = "poll" /\ Crossed(pos, last'.px)
             \/ ~paper /\ SyncFoundNone

HolderProceeds(t) ==
    ENABLED (open_send(t) \/ (\E order \in MarketOrderResults : open_filled(t, order))
             \/ return(t))

C40_OneSide ==
    \A i \in 1..Len(enriched) :
        /\ ~(enriched[i].rule_long /\ enriched[i].rule_short)
        /\ ~(enriched[i].long /\ enriched[i].short)
        /\ Len(opens_of(enriched[i])) <= 1

\* enrich has run with BUY_TH below SHORT_TH on a row whose prob_up lies
\* between them and whose indicators satisfy rule_long: the probability tests
\* of both signals hold, and the row is a long only
C40_Witness ==
    /\ last.op = "enrich"
    /\ last.px < last.qty
    /\ enriched # << >>
    /\ enriched[1].prob_up > last.px
    /\ enriched[1].prob_up < last.qty
    /\ enriched[1].long
    /\ opens_of(enriched[1]) = <<"long">>

====
